---- MODULE Spec2Model ----
(***************************************************************************)
(* A model of BaseExecutor (src/src/BaseExecutor.ts): one executor         *)
(* instance, from construction to the record returned by execute().        *)
(*                                                                         *)
(* Control points.  JavaScript runs execute() atomically between awaits,   *)
(* so pc names the await the run is suspended at:                          *)
(*   "idle"      constructed, execute() not yet called                     *)
(*   "invoke"    awaiting this.invoke(...)            (lines 510 and 712)  *)
(*   "tools"     handleToolCalls is at call number i  (lines 746-825)      *)
(*   "callback"  awaiting this.onToolCall for call i  (line 669)           *)
(*   "done"      execute() has returned ret                                *)
(* cancel() is called by code outside the executor, so it can only run     *)
(* while execute() is suspended at a pending adapter call, tool handler or *)
(* callback, or before execute() is called.                                *)
(*                                                                         *)
(* Values.  Adapters, tool handlers and callbacks throw Error objects, so  *)
(* every thrown value has a message.  Tool results and tool-call arguments *)
(* are objects; of their fields the code reads only `completed` and        *)
(* `error`, so a payload is a record of those two plus a tag that tells    *)
(* payloads apart.  Tokens are small naturals.  Trace emission and cost    *)
(* computation do not influence control flow and are left out here.        *)
(***************************************************************************)
EXTENDS Integers, Sequences, FiniteSets, TLC

\* ------------------------------------------------------------------ bounds
MaxBatch == 2       \* most tool calls in one assistant message
MaxCeiling == 6     \* largest maxMessages the caller configures
LowCeiling == 4     \* a maxMessages that lets one batch run before it is reached

\* --------------------------------------------------------------- constants
ErrorLimit == 3     \* "Fail after 3 errors"
\* Stands for the value line 800 stores for an inherited name: there
\* this.toolErrorCount[name] is a function, so `|| 0` keeps it and `+ 1`
\* makes a string, which is never >= 3.
NotANumber == -1

terminatingTools == {"finish_agent_run", "output"}
builtInScenarioTools == {"fetch_available_scenarios", "fetch_scenario_specific_instructions"}

\* Names a caller may register in the tool router, and names the model may call.
RouterNames == {"finish_agent_run", "output", "search", "lookup"}

\* Names the router object has without the caller registering them: it is a
\* plain object, and line 787 reads this.toolRouter[name] through its
\* prototype ("constructor", "toString", ...).  None of them has `execute`.
InheritedNames == {"constructor"}

\* Names a tool call of the model may carry.
ToolNames == RouterNames \cup InheritedNames
               \cup {"unknown_tool", "fetch_available_scenarios"}

\* manifest.variables of the modelled manifest, and the names it declares.
ManifestVariables == <<[name |-> "assistantName", required |-> TRUE],
                       [name |-> "note", required |-> FALSE],
                       [name |-> "task", required |-> TRUE]>>
VarNames == {ManifestVariables[k].name : k \in 1..Len(ManifestVariables)}

\* What a manifest field holds: nothing (undefined), an empty array, a
\* non-empty array, or a value that is not an array.
FieldStates == {"undefined", "empty", "filled", "nonarray"}
\* the keys of the pre-rendered format, lines 151-153
DeprecatedFields == {"systemMessage", "userMessage", "toolDefs"}

VARIABLES
  exported,          \* the manifest the export endpoint returned to loadPrompt,
                     \* NoExport when the caller passed a manifest object
  manifest,          \* config.manifest: what each field holds, see FieldStates
  construction,      \* [state, reason, field]: "pending" before the constructor ran,
                     \* "built", or "threw" with the Error the constructor threw
  manifestVariables, \* manifest.variables: sequence of [name, required]
  variables,         \* names that have a bound value (variables[name] !== undefined)
  toolRouter,        \* names that have a handler in the tool router
  onToolCall,        \* TRUE iff a per-tool-call callback was supplied
  maxMessages,       \* the message ceiling
  repertoire,        \* the tool calls the model behind the adapter may request
  reports,           \* the token usages the adapter may report
  behaviours,        \* what the tool handlers may do when called
  tracing,           \* TRUE iff config.tracing is enabled with apiUrl, tenantId, serviceKey
  studioApiClient,   \* TRUE iff a Studio API client (the pricing source) was supplied
  traces,            \* the traces sendTrace was asked to send, each with its fate so far
  pricingFetch,      \* this.pricingFetchPromise: "none", "pending" or "done"
  modelPricing,      \* this.modelPricing: "unset", "cached" or "fetched"
  pricingLoad,       \* history: what loadModelPricing found and did, NoLoad before
  costTables,        \* the pricing tables calculateCost has used in this execute()
  messages,          \* the message stack
  cancelled,         \* this.cancelled
  forceNextTool,     \* this.forceNextTool, "" when undefined
  toolChoice,        \* tool_choice of the latest adapter invocation
  choices,           \* history: tool_choice of every adapter invocation, in order
  initialToolChoice, \* config.initialToolChoice
  provider,          \* this.provider: the vendor whose adapter the executor is
  blocks,            \* manifest.blocks: the named blocks, in manifest order
  chunk,             \* the content of a system or user chunk
  resolved,          \* what resolveBlockReferences made of the chunk, once it has
  rendered,          \* history: the strings renderChunks returned, in order
  valueOf,           \* the values of the caller's variable bindings, by name
  manifestTools,     \* manifest.tools: the caller's tool declarations, as they are now
  allToolDefs,       \* this.allToolDefs
  scenarioArgs,      \* the args of a direct call of handleFetchScenarioInstructions
  scenarioResult,    \* what that call returned, NotCalled before it
  imageCache,        \* ImageCache.cache: the Map's entries, in insertion order
  maxCacheSize,      \* ImageCache.maxCacheSize
  stats,             \* ImageCache.stats
  lastUse,           \* history: per image key, the number of the operation that
                     \* last stored it by set or hit it by get, 0 if none did
  ops,               \* history: the number of ImageCache operations so far
  evicted,           \* history: the keys the last operation evicted
  toolErrorCount,    \* this.toolErrorCount, absent entries read as 0
  usage,             \* the usage record of the current execute()
  message,           \* runToolLoop's current assistant message
  toolResults,       \* results collected by handleToolCalls for this batch
  i,                 \* index of the tool call / callback being processed
  pc,                \* control point, see above
  ret,               \* the record execute() returned (meaningful when pc = "done")
  escaped,           \* TRUE iff an exception left execute()
  raised,            \* the Error thrown inside execute(), NoError if none was
  \* history variables: what the environment did, recorded independently
  \* of the executor's own bookkeeping
  invokeCount,       \* adapter invocations started
  handlerRuns,       \* tool-router handlers started
  reportedIn,        \* sum of input tokens reported by returned invocations
  reportedOut,       \* sum of output tokens reported by returned invocations
  streak,            \* per tool: handler throws since its last successful call
  lastThrow,         \* message of the most recent handler throw
  cancelCalled,      \* TRUE iff cancel() was called
  nextId,            \* next fresh tool-call id
  executed,          \* ids of the tool calls handleToolCalls has executed, in order
  invoked,           \* arguments of the onToolCall invocations, in order
  cancelPoint,       \* where cancel() was called: the control point ("" if it was
                     \* not called) and the invocations and callbacks started by then
  abortIndex         \* batch position of the call whose callback signalled abort, 0 if none

vars == <<exported, manifest, construction, manifestVariables, variables, toolRouter, onToolCall, maxMessages,
          repertoire, reports, behaviours, tracing, studioApiClient,
          traces, pricingFetch, modelPricing, pricingLoad, costTables,
          messages, cancelled, toolErrorCount, forceNextTool, toolChoice, choices,
          initialToolChoice, provider, blocks, chunk, resolved, rendered, valueOf,
          manifestTools, allToolDefs,
          scenarioArgs, scenarioResult, imageCache, maxCacheSize, stats, lastUse, ops, evicted,
          usage, message, toolResults,
          i, pc, ret, escaped, raised, invokeCount, handlerRuns, reportedIn,
          reportedOut, streak, lastThrow, cancelCalled, nextId,
          executed, invoked, cancelPoint, abortIndex>>

config == <<exported, manifest, manifestVariables, variables, toolRouter, onToolCall, maxMessages,
            repertoire, reports, behaviours, tracing, studioApiClient, initialToolChoice,
            blocks, valueOf, provider>>

rendering == <<chunk, resolved, rendered>>

\* the tool declarations, written only by the constructor
toolDefs == <<manifestTools, allToolDefs>>

\* a direct call of handleFetchScenarioInstructions
scenarioCall == <<scenarioArgs, scenarioResult>>

\* an ImageCache and the history kept about it
images == <<imageCache, maxCacheSize, stats, lastUse, ops, evicted>>

\* the pricing state, written only by loadModelPricing
pricing == <<pricingFetch, modelPricing, pricingLoad>>

\* ------------------------------------------------------------------ values
\* A payload as the code sees it: `completed` is "false" when the object has
\* completed:false and "other" otherwise; `error` is TRUE when its error
\* field is truthy.
Payload(kind, v, completed, error) ==
  [kind |-> kind, v |-> v, completed |-> completed, error |-> error]

\* Arguments the model may give a tool call: two plain objects that differ
\* in their value, an object carrying completed:false, one carrying an error.
PlainArg == Payload("args", "a", "other", FALSE)
OtherArg == Payload("args", "b", "other", FALSE)
IncompleteArg == Payload("args", "c", "false", FALSE)
ErrorArg == Payload("args", "d", "other", TRUE)

\* A tool call as the model requests it, before the adapter gives it an id.
Shape(name, args) == [name |-> name, args |-> args]

\* What a tool-router handler may return: a plain result, one with
\* completed:false, one with a truthy error.
PlainResult == Payload("result", "", "other", FALSE)
HandlerResults == {PlainResult,
                   Payload("result", "", "false", FALSE),
                   Payload("result", "", "other", TRUE)}

\* Messages of the Errors a handler may throw.
HandlerErrors == {"Tool failed", "Tool failed again"}

\* Token counts one invocation may report; [0, 0] is a response without usage.
NoUsage == [input_tokens |-> 0, output_tokens |-> 0]
SomeUsage == [input_tokens |-> 1, output_tokens |-> 2]

NoError == [type |-> "none", detail |-> ""]
Err(type, detail) == [type |-> type, detail |-> detail]

NullResult == [kind |-> "null"]
ContentResult == [kind |-> "content"]          \* result.message.content
CancelledResult == [kind |-> "status", ok |-> FALSE, status |-> "cancelled"]

ZeroUsage == [inputTokens |-> 0, outputTokens |-> 0]
NoMessage == [role |-> "assistant", tool_calls |-> <<>>]
NoReturn == [ok |-> FALSE, usage |-> ZeroUsage, result |-> NullResult, error |-> NoError]

\* ------------------------------------------------------- small pure pieces
\* line 397: 24 * 60 * 60 * 1000 milliseconds
CACHE_TTL_MS == 86400000

\* the pricing cache file as loadModelPricing finds it: missing (or no cache
\* path), unreadable (not JSON, or without timestamp or pricing), or an
\* entry written `age` milliseconds ago
MissingCache == [state |-> "missing", age |-> 0]
UnreadableCache == [state |-> "unreadable", age |-> 0]
CacheEntry(age) == [state |-> "entry", age |-> age]
CacheStates ==
  {MissingCache, UnreadableCache}
    \cup {CacheEntry(age) : age \in {CACHE_TTL_MS - 1, CACHE_TTL_MS, CACHE_TTL_MS + 1}}
\* what listSystemModels does: answers with an entry for the provider and
\* model that has pricing, answers without one, or fails
SourceAnswers == {"match", "nomatch", "fails"}
NoLoad == [cache |-> MissingCache, queried |-> FALSE, answer |-> "none"]

\* an entry as old as the freshness window still taken as fresh
IsFreshInclusive(cache) == cache.state = "entry" /\ cache.age <= CACHE_TTL_MS

\* line 410: Date.now() - cached.timestamp < CACHE_TTL_MS
IsFresh(cache) == cache.state = "entry" /\ cache.age < CACHE_TTL_MS

\* lines 396-463: the pricing obtained ("cached", "fetched", or none:
\* "absent", "failed") and whether the pricing source was queried
loadModelPricing(cache, answer) ==
  IF IsFresh(cache) THEN [outcome |-> "cached", queried |-> FALSE]
  ELSE [outcome |-> CASE answer = "match" -> "fetched"
                      [] answer = "nomatch" -> "absent"
                      [] OTHER -> "failed",
        queried |-> TRUE]

\* A chunk's or block's content is a sequence of pieces: plain text, or one
\* match of /\{component\.([^}]+)\}/ with the block name it captures.
Text == [kind |-> "text", name |-> ""]
Placeholder(blockName) == [kind |-> "component", name |-> blockName]
NotResolved == <<[kind |-> "pending", name |-> ""]>>

\* line 226
MAX_DEPTH == 50

\* line 242: manifest.blocks.find(b => b.name === blockName), <<>> when none
FindBlock(blockName) ==
  LET hits == {k \in 1..Len(blocks) : blocks[k].name = blockName}
  IN IF hits = {} THEN <<>>
     ELSE <<blocks[CHOOSE k \in hits : \A j \in hits : k <= j]>>

\* no chunk to render, and bindings whose values nothing reads
NoBlocks == blocks = <<>> /\ chunk = <<>> /\ valueOf = <<>>

\* a piece of literal text, and one match of /\{([^}]+)\}/ that is not a
\* block reference, with the key it captures
Lit(text) == [kind |-> "text", name |-> text]
Variable(key) == [kind |-> "variable", name |-> key]

\* line 263: the key captured by /\{([^}]+)\}/ in a match
Key(match) == IF match.kind = "component" THEN "component." \o match.name ELSE match.name

\* what String.replace makes of Object.prototype.constructor
InheritedValue == <<Lit("function Object() { [native code] }")>>

\* line 264: variables[key], <<>> when undefined: the caller's own binding,
\* or the member inherited from Object.prototype
Lookup(bound, key) ==
  IF key \in DOMAIN bound THEN <<bound[key]>>
  ELSE IF key \in InheritedNames THEN <<InheritedValue>>
  ELSE <<>>

\* one pass of substitution
RECURSIVE SubstituteOnce(_, _)
SubstituteOnce(template, bound) ==
  IF template = <<>> THEN <<>>
  ELSE (IF Head(template).kind # "text" /\ Lookup(bound, Key(Head(template))) # <<>>
        THEN Lookup(bound, Key(Head(template)))[1]
        ELSE <<Head(template)>>) \o SubstituteOnce(Tail(template), bound)

\* a substitution whose output is scanned once more
populateTemplateRescanning(template, bound) ==
  SubstituteOnce(SubstituteOnce(template, bound), bound)

\* lines 260-266: every match of /\{([^}]+)\}/ in template is replaced, left
\* to right, by the value bound to its key, or left when there is none
RECURSIVE populateTemplate(_, _)
populateTemplate(template, bound) ==
  IF template = <<>> THEN <<>>
  ELSE LET match == Head(template)
           rest == populateTemplate(Tail(template), bound)
       IN IF match.kind = "text" THEN <<match>> \o rest
          ELSE IF Lookup(bound, Key(match)) # <<>>
               THEN Lookup(bound, Key(match))[1] \o rest
               ELSE <<match>> \o rest

\* a reference to a block that is being resolved is dropped from the output
RECURSIVE resolveBlockReferencesDropping(_, _, _)
resolveBlockReferencesDropping(content, visitedBlocks, depth) ==
  IF depth > MAX_DEPTH \/ content = <<>> THEN content
  ELSE LET match == Head(content)
           rest == resolveBlockReferencesDropping(Tail(content), visitedBlocks, depth)
       IN IF match.kind # "component" THEN <<match>> \o rest
          ELSE IF match.name \in visitedBlocks THEN rest
          ELSE IF FindBlock(match.name) = <<>> THEN <<match>> \o rest
          ELSE resolveBlockReferencesDropping(FindBlock(match.name)[1].content,
                                              visitedBlocks \cup {match.name}, depth + 1)
                 \o rest

\* lines 225-254: every match of the pattern in content is replaced, left to
\* right, by what the callback returns for it; the rest is copied
RECURSIVE resolveBlockReferences(_, _, _)
resolveBlockReferences(content, visitedBlocks, depth) ==
  IF depth > MAX_DEPTH \/ content = <<>> THEN content
  ELSE LET match == Head(content)
           rest == resolveBlockReferences(Tail(content), visitedBlocks, depth)
       IN IF match.kind # "component" THEN <<match>> \o rest
          ELSE IF match.name \in visitedBlocks THEN <<match>> \o rest
          ELSE IF FindBlock(match.name) = <<>> THEN <<match>> \o rest
          ELSE resolveBlockReferences(FindBlock(match.name)[1].content,
                                      visitedBlocks \cup {match.name}, depth + 1)
                 \o rest

\* the rendered string stored back into the chunk
ChunkAfterRenderStored(content, out) == out

\* lines 204-212: the chunk after rendering it to out; content is a local of
\* the callback
ChunkAfterRender(content, out) == content

\* validateVariables looking at the first declaration only
FirstMissingHeadOnly(schema, bound) ==
  IF schema # <<>> /\ Head(schema).required /\ Head(schema).name \notin bound
  THEN Head(schema).name ELSE ""

RECURSIVE FirstMissing(_, _)
\* validateVariables: the first required declaration without a bound value,
\* "" when there is none.
FirstMissing(schema, bound) ==
  IF schema = <<>> THEN ""
  ELSE IF Head(schema).required /\ Head(schema).name \notin bound THEN Head(schema).name
  ELSE FirstMissing(Tail(schema), bound)

\* a manifest object, each key holding what `held` says
ManifestOf(held) == [given |-> TRUE] @@ held
\* a manifest in the current format with every field a non-empty array
ValidManifest ==
  ManifestOf([f \in {"system", "user", "blocks", "variables", "tools", "models"} |-> "filled"]
             @@ [f \in DeprecatedFields |-> "undefined"])
\* config.manifest null or undefined
NoManifest ==
  [given |-> FALSE] @@ [f \in {"system", "user", "blocks", "variables", "tools", "models"}
                                 \cup DeprecatedFields |-> "undefined"]
NoExport ==
  [format |-> "none"] @@ [f \in {"system", "user", "blocks", "variables", "tools", "models"}
                                 \cup DeprecatedFields |-> "undefined"]

\* the required fields without the two that nothing else in the constructor reads
RequiredFieldsFewer == <<"system", "user", "blocks", "models">>

\* line 161
RequiredFields == <<"system", "user", "blocks", "variables", "tools", "models">>

ManifestError(reason, field) == [state |-> "threw", reason |-> reason, field |-> field]
NotConstructed == [state |-> "pending", reason |-> "", field |-> ""]
Built == [state |-> "built", reason |-> "", field |-> ""]

\* validateManifest, lines 149-182: the Error it throws, Built when it returns
validateManifest(m) ==
  LET missing == {k \in 1..Len(RequiredFields) : m[RequiredFields[k]] = "undefined"}
      first == CHOOSE k \in missing : \A j \in missing : k <= j
  IN IF \E f \in DeprecatedFields : m[f] # "undefined" THEN ManifestError("deprecated", "")
     ELSE IF missing # {} THEN ManifestError("required", RequiredFields[first])
     ELSE IF m.models = "empty" THEN ManifestError("required", "models")
     ELSE IF m.system \notin {"empty", "filled"} THEN ManifestError("array", "system")
     ELSE IF m.user \notin {"empty", "filled"} THEN ManifestError("array", "user")
     ELSE IF m.blocks \notin {"empty", "filled"} THEN ManifestError("array", "blocks")
     ELSE Built

\* the constructor, lines 84-91: the manifest is required and validated
constructor(m) ==
  IF ~m.given THEN ManifestError("manifest", "") ELSE validateManifest(m)

\* loadPrompt, src/src/runtime.ts 60-87: the object it builds from the
\* manifest of the export response; keys it does not copy are undefined
loadPrompt(data) ==
  ManifestOf([f \in {"system", "user", "blocks", "tools"} |-> "undefined"]
             @@ [f \in {"variables", "models"} |-> data[f]]
             @@ [f \in DeprecatedFields |-> data[f]])

\* buildInitialMessages: the system and the user seed message.
buildInitialMessages == <<[role |-> "system"], [role |-> "user"]>>

\* adapters' hasToolCalls
hasToolCalls(m) == Len(m.tool_calls) > 0

\* a router taken as supplied whatever it holds
hasToolRouterAlways == TRUE

\* line 532
hasToolRouter == toolRouter # {}

\* line 536
hasBuiltInScenarioTools(m) ==
  \E k \in 1..Len(m.tool_calls) : m.tool_calls[k].name \in builtInScenarioTools

\* the guard left out
CeilingNeverReached(msgs) == FALSE

\* line 630: the infinite-loop guard
CeilingReached(msgs) == Len(msgs) >= maxMessages

\* the limit off by one
ErrorLimitReachedEarly(count) == count >= ErrorLimit - 1

\* line 804
ErrorLimitReached(count) == count >= ErrorLimit

\* the counter left as it is on success
CountAfterSuccessKept(counts, name) == counts

\* line 798: a successful router call resets that tool's counter
CountAfterSuccess(counts, name) == [counts EXCEPT ![name] = 0]

\* one counter shared by all tools
CountAfterThrowShared(counts, name) == [n \in DOMAIN counts |-> counts[n] + 1]

\* line 800: a throwing router call increments that tool's counter
CountAfterThrow(counts, name) ==
  [counts EXCEPT ![name] = IF name \in InheritedNames THEN NotANumber ELSE counts[name] + 1]

\* lines 787-789: this.toolRouter[name] is truthy
toolHandler(name) == name \in toolRouter \/ name \in InheritedNames

\* lines 808-812: the generic recoverable-error result
GenericError == Payload("generic", "", "false", TRUE)

\* lines 790-794
NotFound(name) == Payload("notfound", name, "false", TRUE)

\* a catch whose result does not carry the rejection marks
FinishHandlerErrorUnmarked == Payload("finishError", "", "other", FALSE)

\* lines 764-768: a throwing finish_agent_run handler
FinishHandlerError == Payload("finishError", "", "false", TRUE)

\* lines 833-843
handleFetchAvailableScenarios == Payload("scenarios", "", "other", FALSE)

\* manifest.scenarios of the modelled manifest (line 135)
Scenarios == <<[name |-> "billing", instructions |-> "B"],
               [name |-> "refund", instructions |-> "R"],
               [name |-> "shipping", instructions |-> "S"]>>

\* args.scenarioNames: undefined, a value that is not an array, or an array
NoNames == [type |-> "undefined", items |-> <<>>]
NamesString == [type |-> "string", items |-> <<>>]
Names(items) == [type |-> "array", items |-> items]
\* line 849: const { scenarioNames } = args
ScenarioNamesOf(args) ==
  IF "scenarioNames" \in DOMAIN args THEN args.scenarioNames ELSE NoNames

\* line 863: this.scenarios.find(s => s.name === name), <<>> when none
FindScenario(name) ==
  LET hits == {k \in 1..Len(Scenarios) : Scenarios[k].name = name}
  IN IF hits = {} THEN <<>>
     ELSE <<Scenarios[CHOOSE k \in hits : \A j \in hits : k <= j]>>

\* lines 851-857 and 875-881: the error results, without scenarios
ScenarioError(text) == Payload("scenarioError", text, "false", TRUE)
\* lines 883-886
ScenarioResult(scenarios) ==
  [kind |-> "instructions", v |-> "", completed |-> "true", error |-> FALSE,
   scenarios |-> scenarios]

\* the scenarios that exist, the absent ones skipped
handleFetchScenarioInstructionsSkipping(args) ==
  LET scenarioNames == ScenarioNamesOf(args)
      found == {k \in 1..Len(scenarioNames.items) : FindScenario(scenarioNames.items[k]) # <<>>}
  IN IF scenarioNames.type # "array" THEN ScenarioError("scenarioNames must be an array")
     ELSE ScenarioResult(
            [k \in 1..Cardinality(found) |->
               LET j == CHOOSE j \in found : Cardinality({h \in found : h <= j}) = k
                   scenario == FindScenario(scenarioNames.items[j])[1]
               IN [name |-> scenario.name, instructions |-> scenario.instructions]])

\* lines 848-886
handleFetchScenarioInstructions(args) ==
  LET scenarioNames == ScenarioNamesOf(args)
      notFound == {k \in 1..Len(scenarioNames.items) :
                     FindScenario(scenarioNames.items[k]) = <<>>}
  IN IF scenarioNames.type # "array" THEN ScenarioError("scenarioNames must be an array")
     ELSE IF notFound # {} THEN ScenarioError("Scenarios not found")
     ELSE ScenarioResult(
            [k \in 1..Len(scenarioNames.items) |->
               LET scenario == FindScenario(scenarioNames.items[k])[1]
               IN [name |-> scenario.name, instructions |-> scenario.instructions]])

\* A tool declaration of the manifest: the names of its
\* function.parameters.properties in key order and its required array;
\* "bare" is a declaration without function.parameters.
Tool(properties, required) ==
  [kind |-> "function", properties |-> properties, required |-> required]
BareTool == [kind |-> "bare", properties |-> <<>>, required |-> <<>>]
SearchTool == Tool(<<"query">>, <<"query">>)

MoveFirst(names, field) == <<field>> \o SelectSeq(names, LAMBDA f : f # field)
Includes(names, field) == \E k \in 1..Len(names) : names[k] = field

\* lines 334-367: the reasoning field, 'reason' before 'reasoning', goes
\* first in properties, and first in required when required includes it
processToolSchema(schema) ==
  LET reasoningFields == SelectSeq(<<"reason", "reasoning">>,
                                   LAMBDA f : Includes(schema.properties, f))
  IN IF reasoningFields = <<>> THEN schema
     ELSE LET reasoningField == reasoningFields[1]
          IN [schema EXCEPT
                !.properties = MoveFirst(schema.properties, reasoningField),
                !.required = IF Includes(schema.required, reasoningField)
                             THEN MoveFirst(schema.required, reasoningField)
                             ELSE schema.required]

\* lines 310-324: the processed copy of one declaration
processToolDefinition(tool) ==
  IF tool.kind = "function" THEN processToolSchema(tool) ELSE tool

\* lines 298-304
processToolDefinitions(tools) == [k \in 1..Len(tools) |-> processToolDefinition(tools[k])]

\* a constructor that reorders the caller's declaration itself
OriginalAfterProcessShared(tool, processed) == processed

\* line 316: the declaration is cloned (JSON.parse(JSON.stringify(tool)))
\* before anything is written, so the caller's object stays as it was
OriginalAfterProcess(tool, processed) == tool

\* the caller's declarations after processToolDefinitions has run over them
ToolsAfterProcess(tools) ==
  [k \in 1..Len(tools) |-> OriginalAfterProcess(tools[k], processToolDefinition(tools[k]))]

\* the one declaration of the runs that are not about declarations
DefaultTools ==
  /\ manifestTools = <<SearchTool>>
  /\ allToolDefs = processToolDefinitions(<<SearchTool>>)

\* the result of a call that has not been made
NotCalled == Payload("none", "", "other", FALSE)

\* ImageCache: the image keys (#generateKey hashes of the sources), the
\* statistics of a new cache (lines 65-70), and a cache nothing has used
ImageKeys == {"k1", "k2", "k3"}
NewStats == [hits |-> 0, misses |-> 0, stores |-> 0, evictions |-> 0]
NewImageCache(size) ==
  /\ imageCache = <<>>
  /\ maxCacheSize = size
  /\ stats = NewStats
  /\ lastUse = [key \in ImageKeys |-> 0]
  /\ ops = 0
  /\ evicted = {}

\* no method is called directly, and the image cache is the default one's
NoDirectCalls ==
  /\ scenarioArgs = NotCalled
  /\ scenarioResult = NotCalled
  /\ NewImageCache(100)

\* a tool message for the first result only
ToolMessagesFirstOnly(results) ==
  IF results = <<>> THEN <<>>
  ELSE <<[role |-> "tool", tool_call_id |-> Head(results).tool_call_id,
          content |-> Head(results).content]>>

\* lines 650-656: one tool message per result, in order
RECURSIVE ToolMessages(_)
ToolMessages(results) ==
  IF results = <<>> THEN <<>>
  ELSE <<[role |-> "tool", tool_call_id |-> Head(results).tool_call_id,
          content |-> Head(results).content]>> \o ToolMessages(Tail(results))

\* a loop that writes the tool messages over the assistant message
PushToolsOverLast(stack, results) ==
  SubSeq(stack, 1, Len(stack) - 1) \o ToolMessages(results)

\* a loop that pushes the tool messages last result first
PushToolsReversed(stack, results) ==
  stack \o [k \in 1..Len(results) |-> ToolMessages(results)[Len(results) + 1 - k]]

\* lines 649-656: the loop that pushes the tool messages onto the stack
PushTools(stack, results) == stack \o ToolMessages(results)

\* line 685: the first call of the batch that names a terminating tool, 0 if none
RECURSIVE FindFrom(_, _)
FindFrom(calls, k) ==
  IF k > Len(calls) THEN 0
  ELSE IF calls[k].name \in terminatingTools THEN k
  ELSE FindFrom(calls, k + 1)
FindTerminatingCall(calls) == FindFrom(calls, 1)

\* line 687: the first result carrying the given call id, 0 if none
RECURSIVE FindResult(_, _, _)
FindResult(results, id, k) ==
  IF k > Len(results) THEN 0
  ELSE IF results[k].tool_call_id = id THEN k
  ELSE FindResult(results, id, k + 1)

\* only completed:false taken as a rejection
RejectedCompletedOnly(content) == content.completed = "false"

\* line 690
Rejected(content) == content.completed = "false" \/ content.error

\* lines 660-667: the next call after position k that is not a terminating
\* tool, 0 if there is none
RECURSIVE NextCallbackIndex(_, _)
NextCallbackIndex(calls, k) ==
  IF k >= Len(calls) THEN 0
  ELSE IF calls[k + 1].name \notin terminatingTools THEN k + 1
  ELSE NextCallbackIndex(calls, k + 1)

\* usage overwritten by the latest turn instead of accumulated
AddUsageOverwrite(us, u) == [inputTokens |-> u.input_tokens, outputTokens |-> u.output_tokens]

\* lines 517-521 and 719-720
FirstUsage(u) == [inputTokens |-> u.input_tokens, outputTokens |-> u.output_tokens]
AddUsage(us, u) == [inputTokens |-> us.inputTokens + u.input_tokens,
                    outputTokens |-> us.outputTokens + u.output_tokens]

\* ------------------------------------------------------------ environment
\* What a pending handler call may do: return a result or throw an Error.
HandlerReturns(r) == [type |-> "returns", result |-> r, msg |-> "", force |-> ""]
HandlerThrows(m) == [type |-> "throws", result |-> PlainResult, msg |-> m, force |-> ""]
\* the handler returns r with forceNextTool: t in it
HandlerForces(r, t) == [type |-> "returns", result |-> r, msg |-> "", force |-> t]
SyncOutcome == HandlerReturns(PlainResult)

\* What a pending callback may do.
CallbackOutcomes == {"continue", "abort", "throws"}

\* The tool calls of one adapter response: up to MaxBatch calls, each one of
\* the given shapes, with fresh ids.
Batches(shapes, firstId) ==
  UNION {{[k \in 1..n |-> [id |-> firstId + k - 1, name |-> f[k].name, args |-> f[k].args]] :
            f \in [1..n -> shapes]} : n \in 0..MaxBatch}

\* ------------------------------------------------------ the code's pieces
\* lines 756-758 and 787-796: TRUE iff executing the call awaits a router handler
RunsHandler(name) == name \notin builtInScenarioTools /\ name \in toolRouter

\* lines 746-815, one iteration of handleToolCalls: what executing `call`
\* yields when its handler (if one is run) behaves as `outcome`.
\*   fatal: the handler's Error is re-thrown (line 805), with message err
\*   content: the tool result, counts: toolErrorCount afterwards
\*   force: toolResult?.forceNextTool (line 818), "" when absent
handleToolCall(call, outcome, counts) ==
  LET ok(content, c) == [fatal |-> FALSE, err |-> NoError, content |-> content,
                         counts |-> c, force |-> ""]
  IN IF call.name = "finish_agent_run" THEN
       IF call.name \in toolRouter THEN
         IF outcome.type = "returns"
         THEN [ok(outcome.result, counts) EXCEPT !.force = outcome.force]
         ELSE ok(FinishHandlerError, counts)
       ELSE ok(call.args, counts)
     ELSE IF call.name = "fetch_available_scenarios" THEN
       ok(handleFetchAvailableScenarios, counts)
     ELSE IF call.name = "fetch_scenario_specific_instructions" THEN
       ok(handleFetchScenarioInstructions(call.args), counts)
     ELSE IF ~toolHandler(call.name) THEN ok(NotFound(call.name), counts)
     ELSE IF call.name \notin toolRouter THEN
       \* toolHandler.execute is not a function: the TypeError is caught at 799
       ok(GenericError, CountAfterThrow(counts, call.name))
     ELSE IF outcome.type = "returns" THEN
       [ok(outcome.result, CountAfterSuccess(counts, call.name)) EXCEPT !.force = outcome.force]
     ELSE LET c == CountAfterThrow(counts, call.name)
          IN IF ErrorLimitReached(c[call.name])
             THEN [fatal |-> TRUE, err |-> Err("Error", outcome.msg),
                   content |-> GenericError, counts |-> c, force |-> ""]
             ELSE ok(GenericError, c)

\* lines 684-696: the arguments runToolLoop returns for this batch, as
\* [accepted |-> TRUE, args |-> ...], or accepted = FALSE to go on looping
TerminatingDecision(calls, results) ==
  LET t == FindTerminatingCall(calls)
      r == IF t = 0 THEN 0 ELSE FindResult(results, calls[t].id, 1)
  IN IF t = 0 THEN [accepted |-> FALSE, args |-> NullResult]
     ELSE IF r # 0 /\ Rejected(results[r].content)
          THEN [accepted |-> FALSE, args |-> NullResult]
          ELSE [accepted |-> TRUE, args |-> calls[t].args]

\* lines 554 and 566: the messages field of the record execute() returns is
\* this.messages itself
ReturnedMessages == messages

\* ---------------------------------------------------- control fragments
\* Each fragment fixes pc', ret', escaped', raised' and invokeCount'.
Returns(r) ==
  /\ pc' = "done"
  /\ ret' = r
  /\ escaped' = escaped
  /\ invokeCount' = invokeCount
  /\ raised' = raised

\* lines 551-556: the record of a run that did not throw
ExecuteReturn(canc, us, output) ==
  Returns([ok |-> ~canc, usage |-> us, result |-> output, error |-> NoError])

\* a catch that lets the Error go on to the caller
CatchRethrows(err) ==
  /\ pc' = "done"
  /\ ret' = ret
  /\ escaped' = TRUE
  /\ invokeCount' = invokeCount

\* a catch that reports the usage accumulated so far
CatchKeepsUsage(err) ==
  /\ pc' = "done"
  /\ ret' = [ok |-> FALSE, usage |-> usage, result |-> NullResult, error |-> err]
  /\ escaped' = FALSE
  /\ invokeCount' = invokeCount

\* lines 557-569: the outermost catch
Catch(err) ==
  /\ pc' = "done"
  /\ ret' = [ok |-> FALSE, usage |-> ZeroUsage, result |-> NullResult, error |-> err]
  /\ escaped' = FALSE
  /\ invokeCount' = invokeCount

\* An Error is thrown inside execute()'s try block.
Throw(err) ==
  /\ raised' = err
  /\ Catch(err)

CeilingError == Err("Error", "Message stack exceeded maxMessages. Possible infinite loop detected")
NoTerminatingError == Err("Error", "Agent ended without calling terminating tool")
AdapterError == Err("Error", "adapter failed")
CallbackError == Err("Error", "callback failed")
MissingVariableError(name) == Err("Required variable missing", name)

\* lines 698-715: the next adapter invocation is started
\* line 79: the default of initialToolChoice
DefaultToolChoice == "required"

\* lines 281-292
normalizeToolChoice(choice) ==
  IF choice \in {"auto", "required", "none"}
  THEN [type |-> "option", name |-> choice]
  ELSE [type |-> "function", name |-> choice]

\* The adapters, one per vendor; each builds the vendor request of invoke().
Providers == {"anthropic", "openai", "deepseek", "bedrock", "google"}

\* What a vendor request says about tool use, vendor-neutrally: no directive
\* at all, the automatic mode, the must-call-a-tool mode, the no-tool-call
\* mode, or one tool pinned.
VendorChoice(mode, name) == [mode |-> mode, name |-> name]
NoDirective == VendorChoice("omitted", "")

\* #formatToolChoice of the Anthropic, OpenAI, DeepSeek and Bedrock adapters:
\* the string 'required' becomes the must-call mode ({type:'any'}, 'required',
\* {any:{}}), every other string becomes the automatic mode ({type:'auto'},
\* 'auto', {auto:{}}), and a function object pins its tool ({type:'tool',
\* name}, the function object itself, {tool:{name}}).
formatToolChoice(choice) ==
  IF choice.type = "option"
  THEN IF choice.name = "required" THEN VendorChoice("any", "")
       ELSE VendorChoice("auto", "")
  ELSE VendorChoice("tool", choice.name)

\* The tool-choice part of the request invoke() builds, tools being declared.
\* Four adapters leave it out for 'auto' and format everything else; the
\* Google adapter sets the mode ANY for 'required' and nothing otherwise.
RequestToolChoice(vendor, choice) ==
  IF vendor = "google"
  THEN IF choice = normalizeToolChoice("required") THEN VendorChoice("any", "")
       ELSE NoDirective
  ELSE IF choice = normalizeToolChoice("auto") THEN NoDirective
       ELSE formatToolChoice(choice)

\* the directive of the last result that carries one
LastForce(results) ==
  LET carriers == {k \in 1..Len(results) : results[k].forceNextTool # ""}
  IN IF carriers = {} THEN ""
     ELSE results[CHOOSE k \in carriers : \A j \in carriers : j <= k].forceNextTool

\* lines 640-647: the directive of the first result that carries one
FirstForce(results) ==
  LET carriers == {k \in 1..Len(results) : results[k].forceNextTool # ""}
  IN IF carriers = {} THEN ""
     ELSE results[CHOOSE k \in carriers : \A j \in carriers : k <= j].forceNextTool

\* falling back to the configured initial tool-choice instead of 'required'
LoopToolChoiceInitial(force) ==
  normalizeToolChoice(IF force # "" THEN force ELSE initialToolChoice)

\* lines 702-710: tool_choice of an invocation made inside the loop
LoopToolChoice(force) == normalizeToolChoice(IF force # "" THEN force ELSE "required")

StartInvoke ==
  /\ pc' = "invoke"
  /\ ret' = ret
  /\ escaped' = escaped
  /\ raised' = raised
  /\ invokeCount' = invokeCount + 1

\* lines 626-637 and 732-737: the loop head for assistant message m, with the
\* stack msgs, the usage us and the cancellation flag canc
LoopTop(m, msgs, us, canc) ==
  IF hasToolCalls(m) /\ ~canc THEN
    IF CeilingReached(msgs) THEN Throw(CeilingError)
    ELSE /\ pc' = "tools"
         /\ UNCHANGED <<ret, escaped, raised, invokeCount>>
  ELSE IF canc THEN ExecuteReturn(canc, us, CancelledResult)
  ELSE Throw(NoTerminatingError)

\* lines 682-697: after the callbacks of a batch
AfterCallbacks(results, canc, force) ==
  LET d == TerminatingDecision(message.tool_calls, results)
  IN IF canc THEN ExecuteReturn(canc, usage, CancelledResult) /\ UNCHANGED <<toolChoice, choices>>
     ELSE IF d.accepted THEN ExecuteReturn(canc, usage, d.args) /\ UNCHANGED <<toolChoice, choices>>
     ELSE /\ StartInvoke
          /\ toolChoice' = LoopToolChoice(force)
          /\ choices' = Append(choices, LoopToolChoice(force))

\* lines 661-672: what onToolCall is given for the call at position k
onToolCallArgs(calls, results, k) ==
  [toolCall |-> calls[k], toolResponse |-> results[k].content]

\* lines 639-680: after handleToolCalls returned `results`
AfterBatch(results) ==
  LET first == IF onToolCall THEN NextCallbackIndex(message.tool_calls, 0) ELSE 0
  IN /\ messages' = PushTools(messages, results)
     /\ toolResults' = results
     /\ cancelled' = cancelled
     /\ forceNextTool' = FirstForce(results)
     /\ IF first # 0
        THEN /\ pc' = "callback"
             /\ i' = first
             /\ invoked' = Append(invoked, onToolCallArgs(message.tool_calls, results, first))
             /\ UNCHANGED <<ret, escaped, raised, invokeCount, toolChoice, choices>>
        ELSE /\ i' = i
             /\ invoked' = invoked
             /\ AfterCallbacks(results, cancelled, FirstForce(results))

\* ------------------------------------------------------------------ actions
\* A stack length the executor never reaches: the loop head stops a run
\* whose stack has maxMessages entries, and one more pass adds at most
\* MaxBatch tool messages and one assistant message.
StackCap == MaxCeiling + MaxBatch + 4

\* The state after construction (lines 64-144) for one choice of the
\* caller's configuration.
InitState(bindings, routers, callbacks, ceilings, shapes, usages, outcomes) ==
  /\ variables \in bindings
  /\ toolRouter \in routers
  /\ onToolCall \in callbacks
  /\ maxMessages \in ceilings
  /\ repertoire = shapes
  /\ reports = usages
  /\ behaviours = outcomes
  /\ messages = <<>>
  /\ cancelled = FALSE
  /\ toolErrorCount = [n \in ToolNames |-> 0]
  /\ forceNextTool = ""
  /\ toolChoice = normalizeToolChoice("none")
  /\ choices = <<>>
  /\ resolved = NotResolved
  /\ rendered = <<>>
  /\ usage = ZeroUsage
  /\ message = NoMessage
  /\ toolResults = <<>>
  /\ i = 0
  /\ pc = "idle"
  /\ ret = NoReturn
  /\ escaped = FALSE
  /\ raised = NoError
  /\ invokeCount = 0
  /\ handlerRuns = 0
  /\ reportedIn = 0
  /\ reportedOut = 0
  /\ streak = [n \in RouterNames |-> 0]
  /\ lastThrow = ""
  /\ cancelCalled = FALSE
  /\ nextId = 1
  /\ executed = <<>>
  /\ invoked = <<>>
  /\ cancelPoint = [at |-> "", invokes |-> 0, callbacks |-> 0]
  /\ abortIndex = 0
  /\ traces = <<>>
  /\ modelPricing = "unset"
  /\ pricingLoad = NoLoad
  /\ costTables = {}

\* the executor was constructed from a valid manifest object
Constructed ==
  /\ initialToolChoice = DefaultToolChoice
  /\ provider = "anthropic"
  /\ NoDirectCalls
  /\ DefaultTools
  /\ NoBlocks
  /\ exported = NoExport
  /\ manifest = ValidManifest
  /\ construction = Built
  /\ manifestVariables = ManifestVariables

\* constructed without tracing and without a pricing source
InitWith(bindings, routers, callbacks, ceilings, shapes, usages, outcomes) ==
  /\ InitState(bindings, routers, callbacks, ceilings, shapes, usages, outcomes)
  /\ Constructed
  /\ tracing = FALSE
  /\ studioApiClient = FALSE
  /\ pricingFetch = "none"

\* lines 498-513: build the seed messages, start the first adapter invocation
FirstTurn ==
  /\ messages' = buildInitialMessages
  /\ StartInvoke
  /\ toolChoice' = normalizeToolChoice(initialToolChoice)
  /\ choices' = Append(choices, normalizeToolChoice(initialToolChoice))

\* execute() does not wait for the pricing fetch
awaitPricingFetchSkipped(fetch) == FALSE

\* lines 494-496: execute() awaits the promise of the pricing fetch when the
\* constructor started one
awaitPricingFetch(fetch) == fetch # "none"

\* lines 469-482: the table calculateCost prices with
calculateCost(mp) == IF mp # "unset" THEN mp ELSE "default"

\* what becomes of a sendTrace call: a request handed to fetch, or an exception
\* thrown before fetch returned its promise (JSON.stringify or fetch throwing)
TraceSyncs == IF tracing THEN {"sent", "throws"} ELSE {"sent"}

\* a trace sendTrace was asked to send: a turn or a tool trace, and its fate:
\* "unsent" when building or handing over the request threw, "pending" once
\* handed to fetch, then what the sink made of it
TraceRequest(kind, fate) == [kind |-> kind, fate |-> fate]

\* sendTrace making its request whatever the tracing configuration
sendTraceAlways(ts, sync, kind) ==
  IF sync = "throws"
  THEN [traces |-> Append(ts, TraceRequest(kind, "unsent")), err |-> NoError]
  ELSE [traces |-> Append(ts, TraceRequest(kind, "pending")), err |-> NoError]

\* sendTrace without its try/catch
sendTraceUncaught(ts, sync, kind) ==
  IF ~tracing THEN [traces |-> ts, err |-> NoError]
  ELSE IF sync = "throws"
  THEN [traces |-> Append(ts, TraceRequest(kind, "unsent")), err |-> Err("Error", "trace")]
  ELSE [traces |-> Append(ts, TraceRequest(kind, "pending")), err |-> NoError]

\* sendTrace, src/src/execute.ts 149-188, as awaited by sendTurnTrace and
\* sendToolTrace: the request is handed to fetch and not awaited; whatever
\* is thrown on the way is caught and logged
sendTrace(ts, sync, kind) ==
  IF ~tracing THEN [traces |-> ts, err |-> NoError]
  ELSE IF sync = "throws"
  THEN [traces |-> Append(ts, TraceRequest(kind, "unsent")), err |-> NoError]
  ELSE [traces |-> Append(ts, TraceRequest(kind, "pending")), err |-> NoError]

\* execute(), lines 488-513: validate, await the pricing fetch, build the seed
\* messages, start the first adapter invocation
Execute ==
  /\ pc = "idle"
  /\ construction = Built
  /\ LET missing == FirstMissing(manifestVariables, variables)
     IN IF missing # ""
        THEN /\ Throw(MissingVariableError(missing))
             /\ messages' = messages
             /\ UNCHANGED <<toolChoice, choices>>
        ELSE IF awaitPricingFetch(pricingFetch) /\ pricingFetch = "pending"
        THEN /\ pc' = "pricing"
             /\ UNCHANGED <<messages, toolChoice, choices, ret, escaped, raised, invokeCount>>
        ELSE FirstTurn
  /\ UNCHANGED <<config, rendering, scenarioCall, images, toolDefs, construction, pricing, traces, costTables, cancelled, toolErrorCount, forceNextTool, usage, message, toolResults, i,
                 handlerRuns, reportedIn, reportedOut, streak, lastThrow,
                 cancelCalled, nextId, executed, invoked, cancelPoint, abortIndex>>

\* The pending adapter invocation returns tool calls `calls` and usage u:
\* lines 514-556 for the first turn, lines 716-730 and the loop head after it.
InvokeReturns(calls, u) ==
  /\ pc = "invoke"
  /\ Len(messages) < StackCap
  /\ LET first == invokeCount = 1
         m == [role |-> "assistant", tool_calls |-> calls]
         msgs == Append(messages, m)
         us == IF first THEN FirstUsage(u) ELSE AddUsage(usage, u)
     IN /\ messages' = msgs
        /\ message' = m
        /\ usage' = us
        /\ toolResults' = <<>>
        /\ i' = 1
        /\ costTables' = costTables \cup {calculateCost(modelPricing)}
        /\ \E sync \in TraceSyncs :
             LET sent == sendTrace(traces, sync, "turn")
             IN /\ traces' = sent.traces
                /\ IF sent.err # NoError
                   THEN Throw(sent.err)
                   ELSE IF first /\ ~(hasToolRouter \/ hasBuiltInScenarioTools(m))
                   THEN IF Len(calls) > 0
                        THEN ExecuteReturn(cancelled, us, calls[1].args)
                        ELSE ExecuteReturn(cancelled, us, ContentResult)
                   ELSE LoopTop(m, msgs, us, cancelled)
  /\ reportedIn' = reportedIn + u.input_tokens
  /\ reportedOut' = reportedOut + u.output_tokens
  /\ nextId' = nextId + Len(calls)
  /\ UNCHANGED <<config, rendering, scenarioCall, images, toolDefs, construction, pricing, cancelled, toolErrorCount, forceNextTool, toolChoice, choices,
                 handlerRuns, streak, lastThrow,
                 cancelCalled, executed, invoked, cancelPoint, abortIndex>>

\* The pending adapter invocation throws.
InvokeThrows ==
  /\ pc = "invoke"
  /\ Throw(AdapterError)
  /\ UNCHANGED <<config, rendering, scenarioCall, images, toolDefs, construction, pricing, traces, costTables, messages, cancelled, toolErrorCount, forceNextTool, toolChoice, choices, usage, message,
                 toolResults, i, handlerRuns, reportedIn, reportedOut, streak,
                 lastThrow, cancelCalled, nextId, executed, invoked, cancelPoint,
                 abortIndex>>

\* handleToolCalls executes call number i (lines 746-825); after the last
\* call the batch is closed (lines 639-697).
ExecTool(outcome) ==
  /\ pc = "tools"
  /\ LET call == message.tool_calls[i]
         awaited == RunsHandler(call.name)
         step == handleToolCall(call, outcome, toolErrorCount)
         results == Append(toolResults, [tool_call_id |-> call.id, content |-> step.content,
                                         forceNextTool |-> step.force])
     IN /\ awaited \/ outcome = SyncOutcome
        /\ \E sync \in (IF call.name \in builtInScenarioTools THEN TraceSyncs ELSE {"sent"}) :
             traces' = IF call.name \in builtInScenarioTools
                       THEN sendTrace(traces, sync, "tool").traces ELSE traces
        /\ toolErrorCount' = step.counts
        /\ handlerRuns' = IF awaited THEN handlerRuns + 1 ELSE handlerRuns
        /\ streak' = IF ~awaited THEN streak
                     ELSE IF outcome.type = "throws"
                          THEN [streak EXCEPT ![call.name] = @ + 1]
                          ELSE [streak EXCEPT ![call.name] = 0]
        /\ lastThrow' = IF awaited /\ outcome.type = "throws" THEN outcome.msg ELSE lastThrow
        /\ executed' = Append(executed, call.id)
        /\ IF step.fatal
           THEN /\ Throw(step.err)
                /\ UNCHANGED <<messages, toolResults, i, cancelled, invoked,
                               forceNextTool, toolChoice, choices>>
           ELSE IF i < Len(message.tool_calls)
           THEN /\ toolResults' = results
                /\ i' = i + 1
                /\ UNCHANGED <<pc, ret, escaped, raised, invokeCount, messages, cancelled,
                               invoked, forceNextTool, toolChoice, choices>>
           ELSE AfterBatch(results)
  /\ UNCHANGED <<config, rendering, scenarioCall, images, toolDefs, construction, pricing, costTables, usage, message, reportedIn, reportedOut,
                 cancelCalled, nextId, cancelPoint, abortIndex>>

\* The pending onToolCall callback for call number i settles (lines 669-679).
Callback(outcome) ==
  /\ pc = "callback"
  /\ LET next == NextCallbackIndex(message.tool_calls, i)
     IN IF outcome = "throws"
        THEN /\ Throw(CallbackError)
             /\ UNCHANGED <<i, cancelled, invoked, abortIndex, toolChoice, choices>>
        ELSE IF outcome = "abort"
        THEN /\ cancelled' = TRUE
             /\ i' = i
             /\ abortIndex' = i
             /\ invoked' = invoked
             /\ AfterCallbacks(toolResults, TRUE, forceNextTool)
        ELSE IF next # 0
        THEN /\ i' = next
             /\ invoked' = Append(invoked, onToolCallArgs(message.tool_calls, toolResults, next))
             /\ UNCHANGED <<pc, ret, escaped, raised, invokeCount, cancelled, abortIndex,
                            toolChoice, choices>>
        ELSE /\ i' = i
             /\ cancelled' = cancelled
             /\ UNCHANGED <<invoked, abortIndex>>
             /\ AfterCallbacks(toolResults, cancelled, forceNextTool)
  /\ UNCHANGED <<config, rendering, scenarioCall, images, toolDefs, construction, pricing, traces, costTables, messages, toolErrorCount,
                 forceNextTool, usage, message, toolResults,
                 handlerRuns, reportedIn, reportedOut, streak, lastThrow,
                 cancelCalled, nextId, executed, cancelPoint>>

\* cancel(), lines 271-274, called from outside while execute() is suspended
\* at a pending adapter call, handler or callback, or before execute().
Cancel ==
  /\ \/ pc \in {"idle", "pricing", "invoke", "callback"}
     \/ pc = "tools" /\ RunsHandler(message.tool_calls[i].name)
  /\ construction = Built
  /\ ~cancelCalled
  /\ cancelled' = TRUE
  /\ cancelCalled' = TRUE
  /\ cancelPoint' = [at |-> pc, invokes |-> invokeCount, callbacks |-> Len(invoked)]
  /\ UNCHANGED <<config, rendering, scenarioCall, images, toolDefs, construction, pricing, traces, costTables, messages, toolErrorCount,
                 forceNextTool, toolChoice, choices, usage, message, toolResults, i,
                 pc, ret, escaped, raised, invokeCount, handlerRuns, reportedIn,
                 reportedOut, streak, lastThrow, nextId, executed, invoked, abortIndex>>

\* The request of trace number k settles: the sink answers 2xx ("ok"), answers
\* an error status ("error") or the request fails ("rejected"); the .then and
\* .catch handlers of sendTrace only log. A sink that never responds leaves
\* the request pending.
TraceSettles(k, outcome) ==
  /\ k \in 1..Len(traces)
  /\ traces[k].fate = "pending"
  /\ traces' = [traces EXCEPT ![k].fate = outcome]
  /\ UNCHANGED <<config, rendering, scenarioCall, images, toolDefs, construction, pricing, costTables, messages, cancelled, toolErrorCount,
                 forceNextTool, toolChoice, choices, usage, message, toolResults, i, pc, ret,
                 escaped, raised, invokeCount, handlerRuns, reportedIn, reportedOut,
                 streak, lastThrow, cancelCalled, nextId, executed, invoked,
                 cancelPoint, abortIndex>>

\* loadModelPricing, lines 394-462, finishes: a fresh cache entry was read
\* ("cached"), the API listed a price for the model ("fetched"), it listed
\* none ("absent") or the request failed ("failed"); the promise resolves in
\* every case. An execute() suspended on the promise goes on to its first turn.
PricingSettles(outcome) ==
  /\ pricingFetch = "pending"
  /\ pricingFetch' = "done"
  /\ modelPricing' = IF outcome \in {"cached", "fetched"} THEN outcome ELSE modelPricing
  /\ \E cache \in CacheStates, answer \in SourceAnswers :
       LET load == loadModelPricing(cache, answer)
       IN /\ outcome = load.outcome
          /\ pricingLoad' = [cache |-> cache, queried |-> load.queried,
                             answer |-> IF load.queried THEN answer ELSE "unasked"]
  /\ IF pc = "pricing"
     THEN FirstTurn
     ELSE UNCHANGED <<messages, toolChoice, choices, pc, ret, escaped, raised, invokeCount>>
  /\ UNCHANGED <<config, rendering, scenarioCall, images, toolDefs, construction, traces, costTables, cancelled, toolErrorCount, forceNextTool,
                 usage, message, toolResults, i, handlerRuns, reportedIn, reportedOut,
                 streak, lastThrow, cancelCalled, nextId, executed, invoked,
                 cancelPoint, abortIndex>>

\* new Executor(config), lines 64-144: the manifest is checked, and when a
\* pricing source was given the pricing fetch is started
Construct ==
  /\ construction = NotConstructed
  /\ construction' = constructor(manifest)
  /\ pricingFetch' = IF constructor(manifest) = Built /\ studioApiClient
                     THEN "pending" ELSE pricingFetch
  /\ allToolDefs' = IF constructor(manifest) = Built
                     THEN processToolDefinitions(manifestTools) ELSE allToolDefs
  /\ manifestTools' = IF constructor(manifest) = Built
                       THEN ToolsAfterProcess(manifestTools) ELSE manifestTools
  /\ UNCHANGED <<config, rendering, scenarioCall, images, modelPricing, pricingLoad, traces, costTables, messages, cancelled,
                 toolErrorCount, forceNextTool, toolChoice, choices, usage, message, toolResults,
                 i, pc, ret, escaped, raised, invokeCount, handlerRuns, reportedIn,
                 reportedOut, streak, lastThrow, cancelCalled, nextId, executed, invoked,
                 cancelPoint, abortIndex>>

Next ==
  \/ Execute
  \/ \E calls \in Batches(repertoire, nextId), u \in reports : InvokeReturns(calls, u)
  \/ InvokeThrows
  \/ \E outcome \in behaviours \cup {SyncOutcome} : ExecTool(outcome)
  \/ \E outcome \in CallbackOutcomes : Callback(outcome)
  \/ Cancel

\* The caller's bindings: all required variables bound (the optional one
\* unbound), one required variable missing, both missing.
Bindings == {{"assistantName", "task"}, {"assistantName", "note"}, {"note"}}

\* A run of search calls closed by finish_agent_run, with and without a
\* router and a callback.
Init ==
  InitWith(Bindings, {{}, {"search"}, {"search", "finish_agent_run"}}, BOOLEAN,
           {3, MaxCeiling},
           {Shape("search", PlainArg), Shape("finish_agent_run", OtherArg)},
           {NoUsage, SomeUsage},
           {HandlerReturns(PlainResult)} \cup {HandlerThrows(m) : m \in HandlerErrors})

Spec == Init /\ [][Next]_vars

\* The same actions without a callback.
NextNoCallback ==
  \/ Execute
  \/ \E calls \in Batches(repertoire, nextId), u \in reports : InvokeReturns(calls, u)
  \/ InvokeThrows
  \/ \E outcome \in behaviours \cup {SyncOutcome} : ExecTool(outcome)
  \/ Cancel

\* Batches of terminating calls: finish_agent_run with plain and with flagged
\* arguments, and output, with a router that has a handler for output only
\* and one that has handlers for both, the handlers free to accept, reject
\* or throw.
InitTerminating ==
  InitWith({VarNames}, {{"output"}, {"output", "finish_agent_run"}}, {FALSE},
           {LowCeiling},
           {Shape("finish_agent_run", PlainArg), Shape("finish_agent_run", IncompleteArg),
            Shape("finish_agent_run", ErrorArg), Shape("output", OtherArg)},
           {SomeUsage},
           {HandlerReturns(r) : r \in HandlerResults} \cup {HandlerThrows("Tool failed")})

SpecTerminating == InitTerminating /\ [][NextNoCallback]_vars

\* Two router tools whose handlers may return or throw, called again and
\* again, under a ceiling that leaves room for four calls.
InitRetry ==
  InitWith({VarNames}, {{"search", "lookup"}}, {FALSE}, {MaxCeiling + 1},
           {Shape("search", PlainArg), Shape("lookup", PlainArg)},
           {SomeUsage},
           {HandlerReturns(PlainResult)} \cup {HandlerThrows(m) : m \in HandlerErrors})

SpecRetry == InitRetry /\ [][NextNoCallback]_vars

\* Every pending adapter invocation, tool handler and callback eventually
\* returns or throws.
Settle ==
  \/ \E calls \in Batches(repertoire, nextId), u \in reports : InvokeReturns(calls, u)
  \/ InvokeThrows
  \/ \E outcome \in behaviours \cup {SyncOutcome} : ExecTool(outcome)
  \/ \E outcome \in CallbackOutcomes : Callback(outcome)

InitLive ==
  InitWith({VarNames}, {{"search"}}, BOOLEAN, {3, MaxCeiling},
           {Shape("search", PlainArg), Shape("finish_agent_run", OtherArg)},
           {SomeUsage},
           {HandlerReturns(PlainResult), HandlerThrows("Tool failed")})

SpecLive == InitLive /\ [][Next]_vars /\ WF_vars(Settle)

\* Calls of names the router does not have, next to a registered tool.
InitUnknown ==
  InitWith({VarNames}, {{"search"}}, {FALSE}, {MaxCeiling},
           {Shape("unknown_tool", PlainArg), Shape("constructor", PlainArg),
            Shape("search", PlainArg)},
           {SomeUsage},
           {HandlerReturns(PlainResult), HandlerThrows("Tool failed")})

SpecUnknown == InitUnknown /\ [][NextNoCallback]_vars

\* No tool router: the first response is returned directly unless it calls
\* a scenario tool.
InitPlayground ==
  InitWith({VarNames}, {{}}, {FALSE}, {MaxCeiling},
           {Shape("search", PlainArg), Shape("finish_agent_run", OtherArg),
            Shape("fetch_available_scenarios", PlainArg)},
           {NoUsage, SomeUsage},
           {HandlerReturns(PlainResult)})

SpecPlayground == InitPlayground /\ [][NextNoCallback]_vars

\* Handlers that put a forceNextTool directive in their result: two routed
\* tools, each result carrying no directive, naming either tool, or carrying
\* the option word 'auto'.
InitForce ==
  InitWith({VarNames}, {{"search", "lookup"}}, {FALSE}, {MaxCeiling},
           {Shape("search", PlainArg), Shape("lookup", PlainArg)},
           {NoUsage},
           {HandlerReturns(PlainResult), HandlerForces(PlainResult, "search"),
            HandlerForces(PlainResult, "lookup"), HandlerForces(PlainResult, "auto"),
            HandlerThrows("boom")})

SpecForce == InitForce /\ [][NextNoCallback]_vars

\* Runs with and without tracing against a trace sink that answers, answers
\* with an error status, fails or never answers. The adapter, the handlers
\* and the callbacks settle (weak fairness of Settle); nothing is assumed of
\* the sink.
InitTraced ==
  /\ Constructed
  /\ InitState({VarNames}, {{"search"}}, {FALSE}, {LowCeiling},
               {Shape("finish_agent_run", OtherArg),
                Shape("fetch_available_scenarios", PlainArg)},
               {NoUsage},
               {HandlerReturns(PlainResult)})
  /\ tracing \in BOOLEAN
  /\ studioApiClient = FALSE
  /\ pricingFetch = "none"

TraceFates == {"ok", "error", "rejected"}

NextTraced ==
  \/ NextNoCallback
  \/ \E k \in 1..Len(traces), outcome \in TraceFates : TraceSettles(k, outcome)

SpecTraced == InitTraced /\ [][NextTraced]_vars /\ WF_vars(Settle)

\* Runs, with and without tracing, whose turns call the two scenario tools
\* and finish_agent_run, one call a turn or several.
ScenarioArgs(names) ==
  [kind |-> "args", v |-> "s", completed |-> "other", error |-> FALSE,
   scenarioNames |-> names]

InitTracing ==
  /\ Constructed
  /\ InitState({VarNames}, {{"search"}}, {FALSE}, {LowCeiling},
               {Shape("finish_agent_run", OtherArg),
                Shape("fetch_available_scenarios", PlainArg),
                Shape("fetch_scenario_specific_instructions",
                      ScenarioArgs(Names(<<"billing">>)))},
               {NoUsage},
               {HandlerReturns(PlainResult)})
  /\ tracing \in BOOLEAN
  /\ studioApiClient = FALSE
  /\ pricingFetch = "none"

SpecTracing == InitTracing /\ [][NextNoCallback]_vars

\* Executors built with and without a pricing source; the pricing fetch the
\* constructor started finishes at any moment, before or after execute() is
\* called, with any of its outcomes.
InitPricing ==
  /\ Constructed
  /\ InitState({VarNames}, {{"search"}}, {FALSE}, {MaxCeiling},
               {Shape("search", PlainArg), Shape("finish_agent_run", OtherArg)},
               {SomeUsage},
               {HandlerReturns(PlainResult)})
  /\ tracing = FALSE
  /\ studioApiClient \in BOOLEAN
  /\ pricingFetch = IF studioApiClient THEN "pending" ELSE "none"

PricingOutcomes == {"cached", "fetched", "absent", "failed"}

NextPricing ==
  \/ NextNoCallback
  \/ \E outcome \in PricingOutcomes : PricingSettles(outcome)

SpecPricing == InitPricing /\ [][NextPricing]_vars

\* The manifests handed to the constructor: none, and objects whose system,
\* user and blocks are undefined, an empty array, a non-empty array or not
\* an array, whose variables, tools and models are undefined, an empty or a
\* non-empty array, in the current format or with a pre-rendered key.
Manifests ==
  {NoManifest} \cup
  {ManifestOf(a @@ b @@ c) :
     a \in [{"system", "user", "blocks"} -> FieldStates],
     b \in [{"variables", "tools", "models"} -> {"undefined", "empty", "filled"}],
     c \in {[f \in DeprecatedFields |-> "undefined"],
            [f \in DeprecatedFields |-> IF f = "systemMessage" THEN "filled" ELSE "undefined"]}}

\* the run of an executor that is still to be constructed
InitUnbuilt ==
  /\ InitState({VarNames}, {{"search"}}, {FALSE}, {LowCeiling},
               {Shape("finish_agent_run", OtherArg)},
               {NoUsage, SomeUsage},
               {HandlerReturns(PlainResult)})
  /\ construction = NotConstructed
  /\ initialToolChoice = DefaultToolChoice
  /\ provider = "anthropic"
  /\ NoDirectCalls
  /\ manifestTools = (IF manifest.tools = "filled" THEN <<SearchTool>> ELSE <<>>)
  /\ allToolDefs = <<>>
  /\ NoBlocks
  /\ manifestVariables = IF manifest.variables = "filled" THEN ManifestVariables ELSE <<>>
  /\ tracing = FALSE
  /\ studioApiClient \in BOOLEAN
  /\ pricingFetch = "none"

InitConstruct ==
  /\ exported = NoExport
  /\ manifest \in Manifests
  /\ InitUnbuilt

NextConstruct ==
  \/ Construct
  \/ NextNoCallback
  \/ \E outcome \in PricingOutcomes : PricingSettles(outcome)

SpecConstruct == InitConstruct /\ [][NextConstruct]_vars

\* What the export endpoint returns: prompts in the current format (system,
\* user, blocks, variables, tools, models present) and prompts in the
\* pre-rendered format.
ExportedPrompts ==
  {[format |-> "current"] @@ a @@ [f \in {"system", "user", "models"} |-> "filled"]
      @@ [f \in DeprecatedFields |-> "undefined"] :
     a \in [{"blocks", "variables", "tools"} -> {"empty", "filled"}]}
  \cup
  {[format |-> "prerendered"] @@ [f \in {"variables", "models"} \cup DeprecatedFields |-> "filled"]
      @@ [f \in {"system", "user", "blocks", "tools"} |-> "undefined"]}

\* executePrompt, src/src/execute.ts 28-78: called with a manifest object, or
\* in API mode with a prompt name that loadPrompt resolves
InitLoad ==
  /\ exported \in ExportedPrompts \cup {NoExport}
  /\ manifest = IF exported.format = "none" THEN ValidManifest ELSE loadPrompt(exported)
  /\ InitUnbuilt

SpecLoad == InitLoad /\ [][NextConstruct]_vars

\* One batch of calls to a router tool next to another router tool and an
\* unknown tool, or next to a scenario tool and finish_agent_run with a
\* caller's handler, the handlers free to return, reject or throw.
CounterRepertoires ==
  {{Shape("lookup", PlainArg), Shape("search", PlainArg), Shape("unknown_tool", PlainArg)},
   {Shape("lookup", PlainArg), Shape("fetch_available_scenarios", PlainArg),
    Shape("finish_agent_run", OtherArg)}}

InitCounters ==
  \E shapes \in CounterRepertoires :
    InitWith({VarNames}, {{"search", "lookup", "finish_agent_run"}}, {FALSE}, {LowCeiling},
             shapes,
             {NoUsage},
             {HandlerReturns(PlainResult), HandlerReturns(Payload("result", "", "false", FALSE)),
              HandlerThrows("Tool failed")})

SpecCounters == InitCounters /\ [][NextNoCallback]_vars

\* Runs in which the model calls finish_agent_run again and again and the
\* caller's handler for it returns or throws, under a ceiling that leaves
\* room for three calls.
InitFinish ==
  InitWith({VarNames}, {{"finish_agent_run"}}, {FALSE}, {MaxCeiling + 1},
           {Shape("finish_agent_run", PlainArg)},
           {NoUsage},
           {HandlerReturns(PlainResult), HandlerThrows("Tool failed")})

SpecFinish == InitFinish /\ [][NextNoCallback]_vars

\* Runs of executors configured with one of several initial tool-choices,
\* whose handlers return results with or without a forceNextTool directive.
InitialToolChoices == {"required", "auto", "lookup"}

InitOneShot ==
  /\ InitState({VarNames}, {{"search", "lookup"}}, {FALSE}, {MaxCeiling + 1},
               {Shape("search", PlainArg), Shape("lookup", PlainArg)},
               {NoUsage},
               {HandlerReturns(PlainResult), HandlerForces(PlainResult, "search")})
  /\ initialToolChoice \in InitialToolChoices
  /\ provider = "anthropic"
  /\ NoDirectCalls
  /\ DefaultTools
  /\ NoBlocks
  /\ exported = NoExport
  /\ manifest = ValidManifest
  /\ construction = Built
  /\ manifestVariables = ManifestVariables
  /\ tracing = FALSE
  /\ studioApiClient = FALSE
  /\ pricingFetch = "none"

SpecOneShot == InitOneShot /\ [][NextNoCallback]_vars

\* Runs of every adapter under every canonical directive, given at
\* construction or by a handler for the next invocation.
InitVendors ==
  /\ InitState({VarNames}, {{"search"}}, {FALSE}, {LowCeiling},
               {Shape("search", PlainArg)},
               {NoUsage},
               {HandlerReturns(PlainResult), HandlerForces(PlainResult, "none"),
                HandlerForces(PlainResult, "search")})
  /\ initialToolChoice \in {"auto", "required", "none", "search"}
  /\ provider \in Providers
  /\ NoDirectCalls
  /\ DefaultTools
  /\ NoBlocks
  /\ exported = NoExport
  /\ manifest = ValidManifest
  /\ construction = Built
  /\ manifestVariables = ManifestVariables
  /\ tracing = FALSE
  /\ studioApiClient = FALSE
  /\ pricingFetch = "none"

SpecVendors == InitVendors /\ [][NextNoCallback]_vars

\* Rendering of one chunk over manifests whose blocks refer to each other, to
\* themselves and to blocks that do not exist, in every way.
MaxBlocks == 2
MaxRenders == 2
BlockNames == {<<"a", "b", "c", "d">>[k] : k \in 1..MaxBlocks}
Contents ==
  {<<Text>>}
    \cup {<<Text, Placeholder(n)>> : n \in BlockNames \cup {"missing"}}
    \cup {<<Placeholder("a"), Placeholder(n)>> : n \in BlockNames}

InitRender ==
  /\ InitState({VarNames}, {{}}, {FALSE}, {MaxCeiling}, {}, {NoUsage}, {})
  /\ initialToolChoice = DefaultToolChoice
  /\ provider = "anthropic"
  /\ NoDirectCalls
  /\ DefaultTools
  /\ exported = NoExport
  /\ manifest = ValidManifest
  /\ construction = Built
  /\ manifestVariables = ManifestVariables
  /\ tracing = FALSE
  /\ studioApiClient = FALSE
  /\ pricingFetch = "none"
  /\ \E c \in [1..MaxBlocks -> Contents] :
       blocks = [k \in 1..MaxBlocks |-> [name |-> <<"a", "b", "c", "d">>[k], content |-> c[k]]]
  /\ chunk \in Contents
  /\ valueOf = <<>>

\* Rendering of templates with placeholders of bound, unbound and inherited
\* names, over bindings whose values are plain text, empty, or text that
\* itself looks like a block reference or a placeholder, and a block whose
\* content holds a placeholder.
TemplatePieces ==
  {Lit("Hi"), Variable("assistantName"), Variable("task"), Variable("missing"),
   Variable("constructor"), Placeholder("a")}
Templates ==
  {<<>>} \cup {<<x>> : x \in TemplatePieces}
         \cup {<<x, y>> : x \in TemplatePieces, y \in TemplatePieces}
BlockBodies == {<<Lit("A")>>, <<Lit("A"), Variable("task")>>, <<Variable("missing")>>}
BoundValues == {<<Lit("Bot")>>, <<>>, <<Placeholder("a")>>, <<Variable("task")>>}

InitTemplate ==
  /\ InitState({{}, {"assistantName"}, {"assistantName", "task"}}, {{}}, {FALSE},
               {MaxCeiling}, {}, {NoUsage}, {})
  /\ initialToolChoice = DefaultToolChoice
  /\ provider = "anthropic"
  /\ NoDirectCalls
  /\ DefaultTools
  /\ exported = NoExport
  /\ manifest = ValidManifest
  /\ construction = Built
  /\ manifestVariables = ManifestVariables
  /\ tracing = FALSE
  /\ studioApiClient = FALSE
  /\ pricingFetch = "none"
  /\ \E body \in BlockBodies : blocks = <<[name |-> "a", content |-> body]>>
  /\ chunk \in Templates
  /\ valueOf \in [variables -> BoundValues]

\* lines 198-217: renderChunks on the array of this one chunk: its block
\* references are resolved, then its variables populated
renderChunks ==
  /\ Len(rendered) < MaxRenders
  /\ resolved' = resolveBlockReferences(chunk, {}, 0)
  /\ rendered' = Append(rendered, populateTemplate(resolved', valueOf))
  /\ chunk' = ChunkAfterRender(chunk, rendered'[Len(rendered')])
  /\ UNCHANGED <<config, scenarioCall, images, toolDefs, construction, pricing, traces, costTables, messages, cancelled,
                 toolErrorCount, forceNextTool, toolChoice, choices, usage, message,
                 toolResults, i, pc, ret, escaped, raised, invokeCount, handlerRuns,
                 reportedIn, reportedOut, streak, lastThrow, cancelCalled, nextId, executed,
                 invoked, cancelPoint, abortIndex>>

SpecRender == InitRender /\ [][renderChunks]_vars /\ WF_vars(renderChunks)

SpecTemplate == InitTemplate /\ [][renderChunks]_vars

\* ------------------------------------------------------------------ claims
\* What the environment did, said without the executor's own bookkeeping.
Done == pc = "done"
MissingRequired ==
  {manifestVariables[k].name : k \in {j \in 1..Len(manifestVariables) :
      manifestVariables[j].required /\ manifestVariables[j].name \notin variables}}
\* the run went through runToolLoop: a router was supplied or the first
\* response called a scenario tool
EnteredLoop ==
  /\ Len(messages) >= 3
  /\ hasToolRouter \/ hasBuiltInScenarioTools(messages[3])
\* the positions of the current batch whose call is a terminating tool with a
\* result that is not marked rejected
AcceptedCalls ==
  {k \in 1..Len(toolResults) :
     /\ message.tool_calls[k].name \in terminatingTools
     /\ toolResults[k].content.completed # "false"
     /\ ~toolResults[k].content.error}
BatchComplete == Len(toolResults) = Len(message.tool_calls) /\ Len(toolResults) > 0

C3_AcceptedRunResult ==
  (Done /\ EnteredLoop /\ raised = NoError /\ ~cancelled) =>
     /\ ret.ok
     /\ BatchComplete
     /\ \E k \in AcceptedCalls : ret.result = message.tool_calls[k].args
     /\ ret.usage.inputTokens = reportedIn
     /\ ret.usage.outputTokens = reportedOut
     /\ ret.error = NoError

C3_Witness ==
  /\ Done /\ EnteredLoop /\ ret.ok /\ invokeCount >= 2
  /\ reportedIn >= 2
  /\ Len(message.tool_calls) = 2 /\ message.tool_calls[2].name = "finish_agent_run"
  /\ ret.result = message.tool_calls[2].args
  /\ ret.result # message.tool_calls[1].args

C10_CancelledOnEveryPath ==
  (Done /\ cancelCalled /\ raised = NoError) =>
     ~ret.ok /\ ret.result = CancelledResult /\ ret.error = NoError

\* the current batch has a terminating call and every terminating call in
\* it has a rejected result
RejectedOnly ==
  /\ \E k \in 1..Len(toolResults) : message.tool_calls[k].name \in terminatingTools
  /\ AcceptedCalls = {}
\* the batch has just been closed: every call has its result and the run is
\* past the callbacks
BatchClosed == BatchComplete /\ pc \in {"invoke", "done"}
\* the last n entries of the stack
StackTail(n) == SubSeq(messages, Len(messages) - n + 1, Len(messages))
\* the Errors the environment threw into the run
EnvironmentErrors == {AdapterError, CallbackError} \cup {Err("Error", m) : m \in HandlerErrors}

\* C2: with a non-empty router and ceiling maxMessages, execute() ends once
\* called when every adapter invocation, handler and callback settles; it
\* makes at most maxMessages adapter invocations, and a run that was not
\* cancelled, into which nothing threw and whose last response still had
\* tool calls without an accepted terminating call ends with ok:false and
\* the message-stack-exceeded error, its stack at or above the ceiling.
C2_Safety ==
  /\ invokeCount <= maxMessages
  /\ pc = "invoke" => Len(messages) < StackCap
  /\ (Done /\ ~cancelled /\ ~ret.ok /\ raised \notin EnvironmentErrors
        /\ hasToolCalls(message)) =>
       /\ ret.error = CeilingError
       /\ Len(messages) >= maxMessages
C2_Terminates == [](hasToolRouter => C2_Safety) /\ ((pc # "idle") ~> Done)

C2_Witness ==
  Done /\ ret.error = CeilingError /\ invokeCount = 3 /\ maxMessages = MaxCeiling

\* C5: when the handler of a router tool other than finish_agent_run throws
\* for the third time since that tool's last success, execute() returns
\* ok:false with the message of that throw; on the first and second such
\* throw the call's result is the generic recoverable error (completed:false,
\* error:true), nothing is fatal, and when the batch closes the result is on
\* the stack as a tool message.
C5_Throw(n) ==
  IF streak'[n] >= ErrorLimit
  THEN pc' = "done" /\ ~ret'.ok /\ ret'.error = Err("Error", lastThrow')
  ELSE /\ raised' = NoError
       /\ toolResults'[i] = [tool_call_id |-> message.tool_calls[i].id,
                             content |-> Payload("generic", "", "false", TRUE),
                             forceNextTool |-> ""]
       /\ pc' = "done" => cancelled' \/ AcceptedCalls' # {}
       /\ i = Len(message.tool_calls) =>
            messages'[Len(messages')] =
              [role |-> "tool", tool_call_id |-> message.tool_calls[i].id,
               content |-> Payload("generic", "", "false", TRUE)]
C6_SuccessResets ==
  /\ [][\A n \in RouterNames \ {"finish_agent_run"} :
          (pc = "tools" /\ message.tool_calls[i].name = n
             /\ handlerRuns' = handlerRuns + 1 /\ streak'[n] = 0)
          => toolErrorCount'[n] = 0]_vars
  /\ []((Done /\ raised.detail \in HandlerErrors) =>
          \E n \in RouterNames : streak[n] >= 3)

C6_Witness ==
  /\ pc = "invoke" /\ invokeCount = 3 /\ handlerRuns = 4
  /\ streak["search"] = 0 /\ toolErrorCount["search"] = 0 /\ lastThrow # ""
  /\ \A k \in 1..Len(messages) :
       messages[k].role = "assistant" =>
         \A j \in 1..Len(messages[k].tool_calls) : messages[k].tool_calls[j].name = "search"

\* C7: a batch whose terminating calls were all rejected (completed:false or
\* a truthy error) does not end the loop: the results are appended as tool
\* messages and, unless the run is cancelled or fails, the next adapter
\* invocation is made; a run ends with ok:true only after a batch with an
\* accepted terminating call.
C7_RejectedContinues ==
  /\ (BatchClosed /\ RejectedOnly) =>
        /\ StackTail(Len(toolResults)) =
             [k \in 1..Len(toolResults) |->
                [role |-> "tool", tool_call_id |-> message.tool_calls[k].id,
                 content |-> toolResults[k].content]]
        /\ pc = "invoke" \/ cancelled \/ raised # NoError
  /\ (Done /\ EnteredLoop /\ ret.ok) => AcceptedCalls # {}

C7_Witness ==
  /\ pc = "invoke" /\ invokeCount = 2 /\ ~cancelled
  /\ Len(toolResults) = 1 /\ message.tool_calls[1].name = "finish_agent_run"
  /\ toolResults[1].content.completed = "false" /\ ~toolResults[1].content.error
  /\ toolResults[1].content.kind = "result"

\* C8 as stated: when a closed batch has a terminating call whose result is
\* not marked rejected, the loop ends with that batch and the result of the
\* run is the arguments of such a call, also when an earlier terminating call
\* of the batch was rejected (runs cancelled or failed aside).
C8_AnyAcceptedCallEnds ==
  (BatchClosed /\ AcceptedCalls # {} /\ ~cancelled /\ raised = NoError) =>
     /\ Done
     /\ \E k \in AcceptedCalls : ret.result = message.tool_calls[k].args

\* C9 as stated: without a router handler for finish_agent_run, a closed
\* batch made of finish_agent_run calls ends the loop and the result of the
\* run is the arguments of one of them, whatever the arguments (runs
\* cancelled or failed aside).
C9_BuiltInFinishAccepted ==
  (/\ BatchClosed /\ EnteredLoop /\ "finish_agent_run" \notin toolRouter
   /\ \A k \in 1..Len(toolResults) : message.tool_calls[k].name = "finish_agent_run"
   /\ ~cancelled /\ raised = NoError) =>
     /\ Done /\ ret.ok
     /\ \E k \in 1..Len(toolResults) : ret.result = message.tool_calls[k].args

\* every tool call the adapter has returned so far
CallsMade ==
  UNION {{messages[k].tool_calls[j] : j \in 1..Len(messages[k].tool_calls)} :
           k \in {n \in 1..Len(messages) : messages[n].role = "assistant"}}
\* the results on the stack for the call with this id
ResultsOf(id) ==
  {messages[k].content :
     k \in {n \in 1..Len(messages) : messages[n].role = "tool" /\ messages[n].tool_call_id = id}}
\* the callback that was pending when cancel() was called threw
PendingCallbackThrew ==
  raised = CallbackError /\ Len(invoked) = cancelPoint.callbacks

\* C11 as stated: when cancel() is called while an onToolCall callback is
\* pending and that callback resolves, no adapter invocation is made after
\* the call of cancel() and execute() returns ok:false with the cancelled
\* status.
C11_CancelDuringCallback ==
  (Done /\ cancelPoint.at = "callback" /\ ~PendingCallbackThrew) =>
     /\ invokeCount = cancelPoint.invokes
     /\ ~ret.ok
     /\ ret.result = CancelledResult

\* C12 as stated: when the callback for the call at position i of a batch
\* signals abort, the run is cancelled at once: execute() returns ok:false
\* with the cancelled status, no call of the batch after position i is
\* executed and no callback is invoked after that one.
C12_AbortSkipsRest ==
  abortIndex # 0 =>
     /\ Done /\ ~ret.ok /\ ret.result = CancelledResult
     /\ \A k \in (abortIndex + 1)..Len(message.tool_calls) :
          \A n \in 1..Len(executed) : executed[n] # message.tool_calls[k].id
     /\ invoked[Len(invoked)].toolCall = message.tool_calls[abortIndex]

\* C13 as stated: in a run with a callback and neither abort nor
\* cancellation, the callback is invoked exactly once for every executed
\* non-terminating tool call, with that call and its own result, and never
\* for a terminating tool call.
C13_CallbackOncePerCall ==
  (Done /\ onToolCall /\ abortIndex = 0 /\ ~cancelCalled) =>
     /\ \A c \in CallsMade :
          (c.name \notin terminatingTools /\ \E n \in 1..Len(executed) : executed[n] = c.id)
          => Cardinality({j \in 1..Len(invoked) : invoked[j].toolCall = c}) = 1
     /\ \A j \in 1..Len(invoked) :
          /\ invoked[j].toolCall.name \notin terminatingTools
          /\ invoked[j].toolCall \in CallsMade
          /\ ResultsOf(invoked[j].toolCall.id) = {invoked[j].toolResponse}

\* the names handled inside handleToolCalls without the router
BuiltInNames == {"finish_agent_run"} \cup builtInScenarioTools
\* the batch positions whose call names neither a built-in nor a router entry
UnmatchedCalls ==
  {k \in 1..Len(toolResults) :
     message.tool_calls[k].name \notin BuiltInNames \cup toolRouter}

\* C14 as stated: a tool call whose name is neither a built-in tool nor a
\* router entry throws nothing and changes no error counter; its result is
\* {completed:false, error:true, message:"Tool '<name>' not found"}, and
\* when a batch of such calls closes the results are on the stack as tool
\* messages and the next adapter invocation is made.
C14_UnknownToolNotFound ==
  /\ \A n \in ToolNames \ toolRouter : toolErrorCount[n] = 0
  /\ \A k \in UnmatchedCalls :
       toolResults[k].content =
         [kind |-> "notfound", v |-> message.tool_calls[k].name,
          completed |-> "false", error |-> TRUE]
  /\ (BatchClosed /\ UnmatchedCalls = 1..Len(toolResults) /\ ~cancelled /\ raised = NoError) =>
       /\ pc = "invoke"
       /\ StackTail(Len(toolResults)) =
            [k \in 1..Len(toolResults) |->
               [role |-> "tool", tool_call_id |-> message.tool_calls[k].id,
                content |-> toolResults[k].content]]

\* C15: without a tool router, once the first response has arrived and it
\* calls neither scenario tool, execute() has returned: one adapter
\* invocation was made, no tool was executed, the stack holds the two seed
\* messages and the response and no tool message, and the result is the
\* first tool call's arguments, or the text content when there is no call.
C15_NoRouterDirectReturn ==
  (/\ toolRouter = {} /\ Len(messages) >= 3
   /\ \A k \in 1..Len(messages[3].tool_calls) :
        messages[3].tool_calls[k].name \notin
          {"fetch_available_scenarios", "fetch_scenario_specific_instructions"}) =>
     /\ Done /\ raised = NoError
     /\ invokeCount = 1 /\ handlerRuns = 0 /\ executed = <<>>
     /\ Len(messages) = 3
     /\ \A k \in 1..Len(messages) : messages[k].role # "tool"
     /\ ret.result = IF Len(messages[3].tool_calls) > 0
                     THEN messages[3].tool_calls[1].args
                     ELSE [kind |-> "content"]

C15_Witness ==
  /\ Done /\ toolRouter = {} /\ Len(message.tool_calls) = 2
  /\ message.tool_calls[1].name = "search"
  /\ message.tool_calls[2].name = "finish_agent_run"
  /\ ret.result = message.tool_calls[1].args /\ ret.ok

\* the loop has gone on from a batch to the next adapter invocation, which is
\* pending; toolResults still holds the results of that batch
NextTurnPending == pc = "invoke" /\ invokeCount > 1
\* tool_choice naming one tool
Pinned(t) == [type |-> "function", name |-> t]
\* the positions of the batch whose result carries a forceNextTool directive
ForceCarriers == {k \in 1..Len(toolResults) : toolResults[k].forceNextTool # ""}

\* C16 as stated: whenever a result of the batch just executed carries
\* forceNextTool = T and the loop goes on to another turn, that turn's
\* invocation has its tool-choice pinned to T (T the name of a tool).
C16_AnyForcePins ==
  NextTurnPending =>
    \A k \in ForceCarriers :
      toolResults[k].forceNextTool \in ToolNames =>
        toolChoice = Pinned(toolResults[k].forceNextTool)

\* C16 amended: when the loop goes on to another turn, that turn's invocation
\* has its tool-choice decided by the forceNextTool T of the first result of
\* the batch that carries one (later directives of the same batch are
\* ignored): pinned to tool T, or the option T itself when T is one of
\* 'auto', 'required', 'none'; it is 'required' when no result carries one.
C16_FirstForcePins ==
  NextTurnPending =>
    IF ForceCarriers = {}
    THEN toolChoice = [type |-> "option", name |-> "required"]
    ELSE \E k \in ForceCarriers :
           /\ \A j \in ForceCarriers : k <= j
           /\ toolChoice = IF toolResults[k].forceNextTool \in {"auto", "required", "none"}
                           THEN [type |-> "option", name |-> toolResults[k].forceNextTool]
                           ELSE Pinned(toolResults[k].forceNextTool)

C16_Witness ==
  /\ NextTurnPending
  /\ Len(toolResults) = 2
  /\ toolResults[1].forceNextTool = "lookup"
  /\ toolResults[2].forceNextTool = "search"
  /\ toolChoice = Pinned("lookup")

\* the Errors a run can end with when tracing is disabled
ErrorsWithoutTracing ==
  EnvironmentErrors \cup {NoError, CeilingError, NoTerminatingError}
    \cup {MissingVariableError(n) : n \in VarNames}
\* everything but the trace requests
RunState ==
  <<config, construction, pricing, costTables, messages, cancelled, toolErrorCount,
    forceNextTool, toolChoice, choices, usage, message, toolResults, i, pc, ret, escaped, raised, invokeCount,
    handlerRuns, reportedIn, reportedOut, streak, lastThrow, cancelCalled, nextId,
    executed, invoked, cancelPoint, abortIndex>>
\* a step in which a trace request settles
TraceSettled ==
  \E k \in 1..Len(traces) : traces[k].fate = "pending" /\ traces'[k].fate # "pending"

\* C17: trace emission never delays or fails a run. Whatever the trace sink
\* does (answers, answers with an error status, fails, never answers): a run
\* never ends with an error other than those it can end with when tracing is
\* disabled; the settling of a trace request changes nothing of the run
\* (invocations, tool executions, messages, returned record); and execute(),
\* once its first invocation is pending, returns when the adapter, handlers
\* and callbacks settle, with no assumption that any trace request completes.
C17_TraceNeverDelaysOrFails ==
  /\ [](raised \in ErrorsWithoutTracing)
  /\ [][TraceSettled => UNCHANGED RunState]_vars
  /\ (pc = "invoke") ~> Done

C17_Witness ==
  /\ Done /\ tracing /\ ret.ok
  /\ Len(traces) >= 2
  /\ \E k \in 1..Len(traces) : traces[k].fate = "pending"
  /\ \E k \in 1..Len(traces) : traces[k].fate = "rejected"

\* C18: with a pricing source supplied, no cost is computed before the
\* pricing fetch started by the constructor has finished, and every cost of
\* the execution, the first turn's and every later turn's, is computed with
\* one table: the cached or fetched one when it was obtained, the default
\* one otherwise.
C18_OnePricingTable ==
  studioApiClient =>
    /\ costTables # {} => pricingFetch = "done"
    /\ costTables \subseteq
         {IF modelPricing \in {"cached", "fetched"} THEN modelPricing ELSE "default"}

C18_Witness ==
  /\ studioApiClient /\ Done /\ ret.ok
  /\ invokeCount >= 2
  /\ costTables = {"fetched"}

\* no executor exists and no adapter invocation was made
NotBuilt == construction.state # "built" /\ invokeCount = 0 /\ pc = "idle"

\* C19 as stated: a manifest in which any required field is missing or empty
\* is rejected with an exception at construction, and no adapter invocation
\* is made for it.
C19_MissingOrEmptyRejected ==
  (\E f \in {"system", "user", "blocks", "variables", "tools", "models"} :
      manifest[f] \in {"undefined", "empty"}) => NotBuilt

\* C19 amended: a manifest in which any required field is missing
\* (undefined), or whose models array is empty, or whose system, user or
\* blocks is not an array, is rejected with an exception at construction,
\* and no adapter invocation is made for it.
C19_InvalidRejected ==
  (\/ \E f \in {"system", "user", "blocks", "variables", "tools", "models"} :
        manifest[f] = "undefined"
   \/ manifest.models = "empty"
   \/ \E f \in {"system", "user", "blocks"} : manifest[f] = "nonarray") => NotBuilt

C19_Witness ==
  /\ construction.state = "threw" /\ construction.field = "tools"
  /\ manifest.given /\ manifest.tools = "undefined"
  /\ \A f \in {"system", "user", "blocks", "variables", "models"} : manifest[f] = "filled"
  /\ invokeCount = 0

\* C20 as stated: for every prompt the export endpoint returns in the current
\* format, executePrompt by name constructs the executor from the manifest
\* loadPrompt returned, without failing manifest validation.
C20_LoadedManifestRuns ==
  exported.format = "current" => construction.state # "threw"

\* the stack `later` is the stack `earlier` with entries appended at its end
Extends(later, earlier) ==
  /\ Len(later) >= Len(earlier)
  /\ SubSeq(later, 1, Len(earlier)) = earlier

\* C21: during one execute(), once the initial stack exists, the stack only
\* grows by appending at its end (no message removed, reordered or replaced)
\* and its first two entries stay the system and the user seed message.
C21_StackAppendOnly ==
  /\ [][messages # <<>> => Extends(messages', messages)]_vars
  /\ [](messages # <<>> => /\ Len(messages) >= 2
                           /\ messages[1] = [role |-> "system"]
                           /\ messages[2] = [role |-> "user"])

C21_Witness ==
  /\ Done /\ Len(messages) >= 6
  /\ \E k \in 3..Len(messages) : messages[k].role = "tool"
  /\ messages[Len(messages)].role = "assistant"

\* the ids of the calls whose handler has been started and has not settled
Running ==
  IF pc = "tools" /\ RunsHandler(message.tool_calls[i].name)
  THEN {message.tool_calls[i].id} ELSE {}
\* the tool messages on the stack, in stack order
ToolMessagesOnStack == SelectSeq(messages, LAMBDA m : m.role = "tool")
\* ids are handed out in call order, so a sequence of ids is in call order
\* iff it is increasing
InCallOrder(ids) == \A n, m \in 1..Len(ids) : n < m => ids[n] < ids[m]

\* C22: within one batch the calls are executed one at a time in call order:
\* while call i is being executed every call before it has been executed
\* and none after it, at most one handler is running, the calls are
\* executed in call order, and the tool messages are on the stack in the
\* order of the calls.
C22_OneAtATime ==
  /\ pc = "tools" =>
       /\ i \in 1..Len(message.tool_calls)
       /\ Len(toolResults) = i - 1
       /\ \A k \in 1..Len(message.tool_calls) :
            (k < i) <=> (\E n \in 1..Len(executed) : executed[n] = message.tool_calls[k].id)
  /\ Cardinality(Running) <= 1
  /\ InCallOrder(executed)
  /\ InCallOrder([k \in 1..Len(ToolMessagesOnStack) |-> ToolMessagesOnStack[k].tool_call_id])

C22_Witness ==
  /\ pc = "tools" /\ i = 2 /\ Running = {message.tool_calls[2].id}
  /\ executed # <<>> /\ executed[Len(executed)] = message.tool_calls[1].id
  /\ handlerRuns >= 2
  /\ Len(ToolMessagesOnStack) >= 1

\* C23 as stated: the cancellation flag is checked before callbacks are
\* invoked: when cancel() is called while a batch is being executed, no
\* onToolCall callback is invoked for that batch.
C23_CancelBeforeCallbacks ==
  cancelPoint.at = "tools" => Len(invoked) = cancelPoint.callbacks

\* C24: when an adapter invocation made inside the tool loop starts, the
\* stack ends with the previous assistant message followed by exactly one
\* tool message per tool call of that message, in call order and carrying
\* that call's id.
C24_EveryCallAnswered ==
  NextTurnPending =>
    LET n == Len(message.tool_calls)
        base == Len(messages) - n
    IN /\ n >= 1
       /\ base >= 3
       /\ messages[base] = message
       /\ message.role = "assistant"
       /\ \A k \in 1..n :
            /\ messages[base + k].role = "tool"
            /\ messages[base + k].tool_call_id = message.tool_calls[k].id

C24_Witness ==
  /\ NextTurnPending /\ invokeCount = 3
  /\ Len(message.tool_calls) = 2
  /\ messages[Len(messages)].role = "tool"
  /\ messages[Len(messages)].tool_call_id = message.tool_calls[2].id
  /\ messages[Len(messages)].content.error

\* C25: error counters are independent per tool name: the execution of a
\* call (to a router tool that succeeds or fails, to an unknown tool, to a
\* scenario tool, or a terminating call that is rejected) changes no error
\* counter other than that of the called name, and no other step changes any.
C25_CountersIndependent ==
  [][\A b \in ToolNames :
       toolErrorCount'[b] # toolErrorCount[b] =>
         pc = "tools" /\ message.tool_calls[i].name = b]_vars

C25_Witness ==
  /\ Len(toolResults) = 2
  /\ message.tool_calls[1].name = "lookup" /\ toolErrorCount["lookup"] = 1
  /\ message.tool_calls[2].name \in {"search", "unknown_tool", "fetch_available_scenarios",
                                     "finish_agent_run"}
  /\ toolErrorCount["search"] = 0

\* the step in which the caller's finish_agent_run handler, run for call i, throws
FinishHandlerThrew ==
  /\ pc = "tools" /\ message.tool_calls[i].name = "finish_agent_run"
  /\ "finish_agent_run" \in toolRouter
  /\ streak'["finish_agent_run"] = streak["finish_agent_run"] + 1

\* C26: a throwing caller-supplied finish_agent_run handler is never fatal,
\* however often it throws: each throw becomes a rejected terminating result
\* (completed:false, error:true), changes no error counter and raises
\* nothing, and after a batch without an accepted terminating call the loop
\* goes on to the next adapter invocation unless the run was cancelled.
C26_FinishThrowNotFatal ==
  /\ [][FinishHandlerThrew =>
         /\ toolErrorCount' = toolErrorCount
         /\ raised' = NoError
         /\ toolResults'[i].tool_call_id = message.tool_calls[i].id
         /\ toolResults'[i].content.completed = "false"
         /\ toolResults'[i].content.error]_vars
  /\ [](raised \notin {Err("Error", m) : m \in HandlerErrors})
  /\ []((BatchClosed /\ AcceptedCalls = {} /\ ~cancelled /\ raised = NoError)
          => pc = "invoke")

C26_Witness ==
  /\ pc = "invoke" /\ ~cancelled
  /\ streak["finish_agent_run"] >= 3
  /\ toolErrorCount["finish_agent_run"] = 0

\* the loop is to process an assistant message with tool calls while the
\* stack, that message included, is at or above the ceiling
AtCeiling ==
  /\ EnteredLoop
  /\ messages[Len(messages)] = message
  /\ hasToolCalls(message)
  /\ Len(messages) >= maxMessages

\* C27: the ceiling check precedes tool execution: when the stack is at or
\* above the ceiling as an assistant message with tool calls is about to be
\* processed, none of that batch's calls is executed and no callback is
\* invoked for it, also when it holds a terminating call that would have
\* been accepted, and the run ends with ok:false: with the ceiling error,
\* or as cancelled when cancel() was called before.
C27_CeilingBeforeTools ==
  AtCeiling =>
    /\ Done /\ ~ret.ok
    /\ cancelled \/ raised = CeilingError
    /\ \A k \in 1..Len(message.tool_calls) :
         /\ \A n \in 1..Len(executed) : executed[n] # message.tool_calls[k].id
         /\ \A n \in 1..Len(invoked) : invoked[n].toolCall # message.tool_calls[k]
    /\ toolResults = <<>>

C27_Witness ==
  /\ AtCeiling /\ raised = CeilingError
  /\ "finish_agent_run" \notin toolRouter
  /\ \E k \in 1..Len(message.tool_calls) : message.tool_calls[k].name = "finish_agent_run"
  /\ executed # <<>>

\* tool_choice 'required'
RequiredOption == [type |-> "option", name |-> "required"]

\* C28: a forceNextTool directive is one-shot. Every adapter invocation made
\* inside the loop after a batch in which no result carried a directive uses
\* tool-choice 'required', whatever directives earlier batches carried and
\* whatever initial tool-choice the executor was configured with.
C28_ForceIsOneShot ==
  NextTurnPending =>
    /\ Len(choices) = invokeCount
    /\ ForceCarriers = {} => choices[Len(choices)] = RequiredOption

\* configured with 'auto', the first loop invocation was pinned to search by
\* a directive, and the next one, after a batch without directive, is pending
C28_Witness ==
  /\ NextTurnPending
  /\ ForceCarriers = {}
  /\ initialToolChoice = "auto"
  /\ choices = <<[type |-> "option", name |-> "auto"], Pinned("search"), RequiredOption>>

\* execute() has returned a failure: ok false with an error
FailureReturned == Done /\ ~escaped /\ ~ret.ok /\ ret.error # NoError

\* C29: whenever execute() returns a failure (ok false with an error), the
\* returned usage is all zeros and the result is null, even when adapter
\* invocations were made and tokens were consumed before the failure; the
\* returned messages are the stack as it stood at the failure: nothing pushed
\* before the failure is dropped from it.
C29_FailureReturnsZeroUsage ==
  /\ [](FailureReturned => ret.usage = ZeroUsage /\ ret.result = NullResult)
  /\ [][~FailureReturned /\ FailureReturned' =>
          Extends(ReturnedMessages', messages)]_vars

\* a failure returned after two adapter invocations that consumed tokens
C29_Witness ==
  /\ FailureReturned
  /\ invokeCount >= 2
  /\ usage.inputTokens > 0
  /\ usage.outputTokens > 0
  /\ Len(ReturnedMessages) >= 3

\* the block names a content refers to
References(content) ==
  {content[k].name : k \in {j \in 1..Len(content) : content[j].kind = "component"}}
\* the resolution chains that close: the chunk refers to the first block, every
\* block of the chain refers to the next, the blocks before the last are
\* distinct blocks of the manifest and the last one is one of them again
ClosedChains ==
  {p \in UNION {[1..n -> BlockNames] : n \in 2..(MaxBlocks + 1)} :
     /\ p[1] \in References(chunk)
     /\ \A k \in 1..(Len(p) - 1) :
          /\ FindBlock(p[k]) # <<>>
          /\ p[k + 1] \in References(FindBlock(p[k])[1].content)
          /\ \A j \in 1..(Len(p) - 1) : j # k => p[j] # p[k]
     /\ \E k \in 1..(Len(p) - 1) : p[k] = p[Len(p)]}
\* the pieces of a content
Pieces(content) == {content[k] : k \in 1..Len(content)}

\* C30: for every set of blocks with any reference graph, self-references and
\* cycles through several blocks included, rendering terminates, and a
\* reference to a block that is already on the current resolution chain is
\* left in the output as the literal placeholder instead of being expanded.
C30_CyclesLeftAsPlaceholders ==
  /\ <>(resolved # NotResolved)
  /\ [](resolved # NotResolved =>
         \A p \in ClosedChains : Placeholder(p[Len(p)]) \in Pieces(resolved))

\* rendered: a chunk naming block a, which refers to b, which refers back to a
C30_Witness ==
  /\ resolved # NotResolved
  /\ <<"a", "b", "a">> \in ClosedChains
  /\ <<"a", "a">> \notin ClosedChains
  /\ Placeholder("a") \in Pieces(resolved)

RECURSIVE SubstituteBound(_, _)
SubstituteBound(template, bound) ==
  IF template = <<>> THEN <<>>
  ELSE (IF Head(template).kind = "variable" /\ Head(template).name \in DOMAIN bound
        THEN bound[Head(template).name]
        ELSE <<Head(template)>>) \o SubstituteBound(Tail(template), bound)

\* C32 as stated: in variable substitution every placeholder {name} whose
\* name has a bound value is replaced by that value and every placeholder
\* whose name has no bound value is left as the literal text {name}, each of
\* several placeholders of one string being handled this way.
C32_BoundReplacedUnboundLeft ==
  \A k \in 1..Len(rendered) : rendered[k] = SubstituteBound(resolved, valueOf)

\* text ends with the pieces of value
EndsWith(text, value) ==
  /\ Len(text) >= Len(value)
  /\ SubSeq(text, Len(text) - Len(value) + 1, Len(text)) = value
\* the placeholders of bound names among the pieces of a content
BoundAt(content) ==
  {k \in 1..Len(content) : content[k].kind = "variable" /\ content[k].name \in variables}

\* C33: substituted values are never scanned again. The value of a bound
\* variable appears verbatim in the rendered output where its placeholder
\* stood, also when the value itself holds the text of a block reference or
\* of a placeholder, which is expanded neither as a block nor as a variable;
\* placeholders inside the content of a referenced block are substituted.
C33_ValuesNotRescanned ==
  \A k \in 1..Len(rendered) :
    /\ 1 \in BoundAt(chunk) => Extends(rendered[k], valueOf[chunk[1].name])
    /\ Len(chunk) \in BoundAt(chunk) => EndsWith(rendered[k], valueOf[chunk[Len(chunk)].name])
    /\ chunk = <<Placeholder("a")>> =>
         rendered[k] = SubstituteBound(blocks[1].content, valueOf)

\* rendered: a chunk whose placeholder is bound to the text of a reference to
\* block a, followed by a reference to block a, whose content holds a
\* placeholder bound to its own text
C33_Witness ==
  /\ Len(rendered) >= 1
  /\ chunk = <<Variable("assistantName"), Placeholder("a")>>
  /\ blocks[1].content = <<Lit("A"), Variable("task")>>
  /\ variables = {"assistantName", "task"}
  /\ valueOf["assistantName"] = <<Placeholder("a")>>
  /\ valueOf["task"] = <<Variable("task")>>
  /\ rendered[1] = <<Placeholder("a"), Lit("A"), Variable("task")>>

\* the adapter invocations that returned: the assistant messages on the stack
AssistantMessages == {k \in 1..Len(messages) : messages[k].role = "assistant"}
\* the name of the executed call with this id
NamesOfCall(id) ==
  {messages[p[1]].tool_calls[p[2]].name :
     p \in {q \in AssistantMessages \X (1..MaxBatch) :
              /\ q[2] <= Len(messages[q[1]].tool_calls)
              /\ messages[q[1]].tool_calls[q[2]].id = id}}
\* the executed calls of the tools named
ExecutedCallsOf(names) == {k \in 1..Len(executed) : NamesOfCall(executed[k]) \cap names # {}}
\* the traces of a kind, all of them and those handed to the sink
TracesOf(kind) == {k \in 1..Len(traces) : traces[k].kind = kind}
Dispatched(kind) == {k \in TracesOf(kind) : traces[k].fate # "unsent"}

\* C34 as stated: with tracing enabled and fully configured, exactly one turn
\* trace is dispatched per adapter invocation that returned and exactly one
\* tool trace per executed call of a scenario tool; with tracing absent or
\* disabled no trace request is made at all.
C34_OneTraceDispatched ==
  IF tracing
  THEN /\ Cardinality(Dispatched("turn")) = Cardinality(AssistantMessages)
       /\ Cardinality(Dispatched("tool")) = Cardinality(ExecutedCallsOf(builtInScenarioTools))
  ELSE traces = <<>>

\* C34 amended: with tracing enabled and fully configured, sendTrace is asked
\* for exactly one turn trace per adapter invocation that returned and for
\* exactly one tool trace per executed call of a scenario tool, and each
\* time hands one request to the sink, unless building or handing over the
\* request throws, in which case that trace is not sent; with tracing absent
\* or disabled no trace request is made at all.
C34_OneTraceAttempted ==
  IF tracing
  THEN /\ Cardinality(TracesOf("turn")) = Cardinality(AssistantMessages)
       /\ Cardinality(TracesOf("tool")) = Cardinality(ExecutedCallsOf(builtInScenarioTools))
       /\ Len(traces) = Cardinality(TracesOf("turn")) + Cardinality(TracesOf("tool"))
  ELSE traces = <<>>

\* a traced run of two turns that executed both scenario tools, one of its
\* traces lost to an exception
C34_Witness ==
  /\ tracing
  /\ Cardinality(AssistantMessages) >= 2
  /\ ExecutedCallsOf({"fetch_available_scenarios"}) # {}
  /\ ExecutedCallsOf({"fetch_scenario_specific_instructions"}) # {}
  /\ Cardinality(Dispatched("tool")) >= 1
  /\ \E k \in 1..Len(traces) : traces[k].fate = "unsent"

\* C35 as stated: with tracing enabled, a tool-execution trace is emitted for
\* every built-in tool execution, finish_agent_run included: a run whose
\* turns call fetch_available_scenarios, fetch_scenario_specific_instructions
\* and finish_agent_run emits three tool-execution traces, one per tool.
C35_ToolTracePerBuiltIn ==
  tracing => Cardinality(TracesOf("tool")) = Cardinality(ExecutedCallsOf(BuiltInNames))

\* C36: pricing load uses the cache by freshness. A cached entry for the
\* provider and model younger than 24 hours is used without querying the
\* pricing source; a missing, unreadable or 24-hours-or-older entry causes a
\* query; and when the query fails or has no matching entry every cost is
\* computed with the hard-coded default rate and the execution is not failed.
C36_CacheByFreshness ==
  pricingFetch = "done" =>
    IF pricingLoad.cache.state = "entry" /\ pricingLoad.cache.age < 24 * 60 * 60 * 1000
    THEN ~pricingLoad.queried /\ modelPricing = "cached"
    ELSE /\ pricingLoad.queried
         /\ pricingLoad.answer = "match" => modelPricing = "fetched"
         /\ pricingLoad.answer \in {"nomatch", "fails"} =>
              /\ costTables \subseteq {"default"}
              /\ raised \in ErrorsWithoutTracing
              /\ ~escaped

\* a run that ended well and priced its turns with the default rate, after a
\* cache entry exactly 24 hours old caused a query that failed
C36_Witness ==
  /\ Done /\ ret.ok
  /\ pricingLoad.cache = CacheEntry(CACHE_TTL_MS)
  /\ pricingLoad.answer = "fails"
  /\ costTables = {"default"}
  /\ invokeCount >= 2
\* ------------------------------------------ the scenario tool, on its own
\* handleFetchScenarioInstructions over every argument: no scenarioNames, one
\* that is not an array, and every array of up to MaxNames names, drawn from
\* the manifest's scenarios and two names the manifest does not have, one
\* of them differing from a scenario's only in case.
MaxNames == 3
RequestedNames == {Scenarios[k].name : k \in 1..Len(Scenarios)} \cup {"absent", "Billing"}
NameArrays == UNION {[1..n -> RequestedNames] : n \in 0..MaxNames}
ScenarioArguments ==
  {PlainArg, ScenarioArgs(NamesString)} \cup {ScenarioArgs(Names(a)) : a \in NameArrays}

InitScenarios ==
  /\ Constructed
  /\ InitState({VarNames}, {{"search"}}, {FALSE}, {LowCeiling},
               {Shape("search", PlainArg)}, {NoUsage}, {HandlerReturns(PlainResult)})
  /\ tracing = FALSE
  /\ studioApiClient = FALSE
  /\ pricingFetch = "none"

\* one call of handleFetchScenarioInstructions(args), lines 848-886
CallFetchScenarioInstructions ==
  /\ pc = "idle"
  /\ \E args \in ScenarioArguments :
       /\ scenarioArgs' = args
       /\ scenarioResult' = handleFetchScenarioInstructions(args)
  /\ UNCHANGED <<config, rendering, images, toolDefs, construction, pricing, traces, costTables,
                 messages, cancelled, toolErrorCount, forceNextTool, toolChoice, choices,
                 usage, message, toolResults, i, pc, ret, escaped, raised, invokeCount,
                 handlerRuns, reportedIn, reportedOut, streak, lastThrow, cancelCalled,
                 nextId, executed, invoked, cancelPoint, abortIndex>>

SpecScenarios == InitScenarios /\ [][CallFetchScenarioInstructions]_vars

\* the manifest's scenario of a name, as the tool returns it
Requested(name) ==
  LET scenario == CHOOSE scenario \in {Scenarios[k] : k \in 1..Len(Scenarios)} :
                    scenario.name = name
  IN [name |-> name, instructions |-> scenario.instructions]
AllExist(names) ==
  /\ names.type = "array"
  /\ \A k \in 1..Len(names.items) :
       names.items[k] \in {Scenarios[j].name : j \in 1..Len(Scenarios)}

\* C38: fetch_scenario_specific_instructions returns completed:true with
\* exactly the requested scenarios in request order when scenarioNames is an
\* array of names that all exist; otherwise (no scenarioNames, not an array,
\* or a name that is absent) it returns completed:false, error:true and no
\* scenario instructions.
C38_RequestedScenariosOrError ==
  scenarioResult # NotCalled =>
    LET names == ScenarioNamesOf(scenarioArgs)
    IN IF AllExist(names)
       THEN /\ scenarioResult.completed = "true"
            /\ scenarioResult.error = FALSE
            /\ scenarioResult.scenarios =
                 [k \in 1..Len(names.items) |-> Requested(names.items[k])]
       ELSE /\ scenarioResult.completed = "false"
            /\ scenarioResult.error = TRUE
            /\ "scenarios" \notin DOMAIN scenarioResult

\* two scenarios fetched in an order that is not the manifest's
C38_Witness ==
  /\ scenarioResult # NotCalled
  /\ ScenarioNamesOf(scenarioArgs) = Names(<<"refund", "billing">>)
  /\ scenarioResult.completed = "true"
  /\ Len(scenarioResult.scenarios) = 2

\* ------------------------------------------- the caller's manifest, whole
\* Construction and runs over manifests whose tool declarations hold a
\* reasoning field in every position, with the system and user chunks
\* rendered (buildInstructions, line 121, and buildInitialMessages, line 599).
MaxTools == 2
Declarations ==
  {SearchTool, BareTool,
   Tool(<<"query", "reason">>, <<"query", "reason">>),
   Tool(<<"reasoning", "query">>, <<"query">>),
   Tool(<<"query", "reasoning", "reason">>, <<"reasoning", "reason">>)}
ToolLists == UNION {[1..n -> Declarations] : n \in 1..MaxTools}

InitManifest ==
  /\ InitState({VarNames}, {{"search"}}, {FALSE}, {LowCeiling},
               {Shape("finish_agent_run", OtherArg)}, {NoUsage},
               {HandlerReturns(PlainResult)})
  /\ construction = NotConstructed
  /\ initialToolChoice = DefaultToolChoice
  /\ provider = "anthropic"
  /\ NoDirectCalls
  /\ exported = NoExport
  /\ manifest \in {ValidManifest, NoManifest}
  /\ manifestTools \in (IF manifest.tools = "filled" THEN ToolLists ELSE {<<>>})
  /\ allToolDefs = <<>>
  /\ manifestVariables = (IF manifest.variables = "filled" THEN ManifestVariables ELSE <<>>)
  /\ blocks = <<[name |-> "a", content |-> <<Lit("A"), Variable("task")>>]>>
  /\ chunk \in {<<Lit("Hi"), Variable("task")>>, <<Placeholder("a")>>}
  /\ valueOf = [v \in variables |-> <<Lit("Bot")>>]
  /\ tracing = FALSE
  /\ studioApiClient \in BOOLEAN
  /\ pricingFetch = "none"

NextManifest ==
  \/ Construct
  \/ renderChunks
  \/ NextNoCallback
  \/ \E outcome \in PricingOutcomes : PricingSettles(outcome)

SpecManifest == InitManifest /\ [][NextManifest]_vars

MaxSize == 2
MaxOps == 4
CacheProviders == {"anthropic", "openai"}
\* a source #generateKey has no key for (lines 94-97)
NoKey == "null"
Sources == ImageKeys \cup {NoKey}

KeysOf(entries) == {entries[k].key : k \in 1..Len(entries)}
Without(entries, key) == SelectSeq(entries, LAMBDA e : e.key # key)
\* this.cache.get(key): the providers stored under key, {} when none
EntryOf(entries, key) ==
  IF key \in KeysOf(entries)
  THEN (CHOOSE e \in {entries[k] : k \in 1..Len(entries)} : e.key = key).formats
  ELSE {}
\* this.cache.delete(key); this.cache.set(key, entry): key goes last
MoveToEnd(entries, key, formats) ==
  Append(Without(entries, key), [key |-> key, formats |-> formats])

\* lines 111-114: TRUE iff get(key, provider) finds a processed image
IsHit(entries, key, prov) ==
  key \in KeysOf(entries) /\ prov \in EntryOf(entries, key)

\* a get that moves every key it finds to the end, hit or not
CacheAfterGetAnyEntry(entries, key, prov) ==
  IF key \in KeysOf(entries) THEN MoveToEnd(entries, key, EntryOf(entries, key))
  ELSE entries

\* lines 106-124: the Map after get(imageSource, provider)
CacheAfterGet(entries, key, prov) ==
  IF IsHit(entries, key, prov) THEN MoveToEnd(entries, key, EntryOf(entries, key))
  ELSE entries

\* lines 133-146: the Map after set() stored the image, before eviction
CacheAfterStore(entries, key, prov, truthy) ==
  MoveToEnd(entries, key,
            IF truthy THEN EntryOf(entries, key) \cup {prov}
            ELSE EntryOf(entries, key) \ {prov})

\* lines 150-157: the first key of the Map goes when the Map is over size
EvictOldest(entries, size) ==
  IF Len(entries) > size THEN Tail(entries) ELSE entries

InitImages ==
  /\ InitState({VarNames}, {{"search"}}, {FALSE}, {LowCeiling},
               {Shape("search", PlainArg)}, {NoUsage}, {HandlerReturns(PlainResult)})
  /\ initialToolChoice = DefaultToolChoice
  /\ provider = "anthropic"
  /\ NoBlocks
  /\ DefaultTools
  /\ exported = NoExport
  /\ manifest = ValidManifest
  /\ construction = Built
  /\ manifestVariables = ManifestVariables
  /\ tracing = FALSE
  /\ studioApiClient = FALSE
  /\ pricingFetch = "none"
  /\ scenarioArgs = NotCalled
  /\ scenarioResult = NotCalled
  /\ \E size \in 1..MaxSize : NewImageCache(size)

\* what no ImageCache method touches
ImagesFrame ==
  UNCHANGED <<config, rendering, scenarioCall, toolDefs, construction, pricing, traces,
              costTables, messages, cancelled, toolErrorCount, forceNextTool, toolChoice,
              choices, usage, message, toolResults, i, pc, ret, escaped, raised,
              invokeCount, handlerRuns, reportedIn, reportedOut, streak, lastThrow,
              cancelCalled, nextId, executed, invoked, cancelPoint, abortIndex,
              maxCacheSize>>

\* set(imageSource, provider, processedImage), lines 129-160
set(key, prov, truthy) ==
  /\ ops < MaxOps
  /\ ops' = ops + 1
  /\ IF key = NoKey
     THEN UNCHANGED <<imageCache, stats, lastUse>> /\ evicted' = {}
     ELSE LET stored == CacheAfterStore(imageCache, key, prov, truthy)
          IN /\ imageCache' = EvictOldest(stored, maxCacheSize)
             /\ evicted' = KeysOf(stored) \ KeysOf(imageCache')
             /\ stats' = [stats EXCEPT !.stores = @ + 1,
                                       !.evictions = @ + Cardinality(evicted')]
             /\ lastUse' = [lastUse EXCEPT ![key] = ops']
  /\ ImagesFrame

\* get(imageSource, provider), lines 106-124
get(key, prov) ==
  /\ ops < MaxOps
  /\ ops' = ops + 1
  /\ evicted' = {}
  /\ IF key = NoKey
     THEN UNCHANGED <<imageCache, stats, lastUse>>
     ELSE /\ imageCache' = CacheAfterGet(imageCache, key, prov)
          /\ IF IsHit(imageCache, key, prov)
             THEN /\ stats' = [stats EXCEPT !.hits = @ + 1]
                  /\ lastUse' = [lastUse EXCEPT ![key] = ops']
             ELSE /\ stats' = [stats EXCEPT !.misses = @ + 1]
                  /\ lastUse' = lastUse
  /\ ImagesFrame

\* has(imageSource, provider), lines 165-171: nothing is written
has(key, prov) ==
  /\ ops < MaxOps
  /\ ops' = ops + 1
  /\ evicted' = {}
  /\ UNCHANGED <<imageCache, stats, lastUse>>
  /\ ImagesFrame

\* clear(), lines 187-191
clear ==
  /\ ops < MaxOps
  /\ ops' = ops + 1
  /\ evicted' = {}
  /\ imageCache' = <<>>
  /\ UNCHANGED <<stats, lastUse>>
  /\ ImagesFrame

NextImages ==
  \/ \E key \in Sources, prov \in CacheProviders : has(key, prov)
  \/ \E key \in Sources, prov \in CacheProviders : get(key, prov)
  \/ \E key \in Sources, prov \in CacheProviders, truthy \in BOOLEAN : set(key, prov, truthy)
  \/ clear

SpecImages == InitImages /\ [][NextImages]_vars

\* C40: an ImageCache of maximum size M >= 1 never holds more than M keys;
\* a set evicts exactly when it brings the count above M, and then the one
\* key it evicts is the key least recently stored by set or hit by get
\* (has() and missed gets having refreshed nothing).
C40_BoundedLeastRecentlyUsed ==
  /\ [](Cardinality(KeysOf(imageCache)) <= maxCacheSize)
  /\ [](Len(imageCache) = Cardinality(KeysOf(imageCache)))
  /\ [][LET held == KeysOf(imageCache') \cup evicted'
        IN /\ Cardinality(evicted') <= 1
           /\ evicted' # {} <=> Cardinality(held) > maxCacheSize
           /\ \A e \in evicted', k \in held : lastUse'[e] <= lastUse'[k]
           /\ KeysOf(imageCache) \subseteq held \/ imageCache' = <<>>]_vars

\* two keys stored, the first of them hit by a get, and a third stored: the
\* set has evicted the key that was stored second
C40_Witness ==
  /\ maxCacheSize = 2
  /\ evicted = {"k2"}
  /\ lastUse["k1"] > lastUse["k2"]
  /\ lastUse["k2"] = 2
  /\ ops = 4
  /\ stats.hits = 1

\* C37: whenever an adapter is invoked, its vendor request carries the
\* equivalent of the canonical directive: 'auto' the automatic mode or no
\* directive, 'required' the must-call-a-tool mode, 'none' the no-tool-call
\* mode, a tool name that tool pinned or else the any-tool mode.
C37_VendorEquivalent ==
  pc = "invoke" =>
    LET sent == RequestToolChoice(provider, toolChoice)
    IN CASE toolChoice = normalizeToolChoice("auto") ->
              sent.mode \in {"auto", "omitted"}
         [] toolChoice = normalizeToolChoice("required") -> sent.mode = "any"
         [] toolChoice = normalizeToolChoice("none") -> sent.mode = "none"
         [] OTHER -> \/ sent = VendorChoice("tool", toolChoice.name)
                     \/ sent.mode = "any"

====
